---------------------------- MODULE Spec2Model ----------------------------
(***************************************************************************)
(* The tabulation engine of EMSim: voters, ballots, the tie-breaker, the   *)
(* candidate sort helper, the tabulation drivers and the voting methods of *)
(* src/src/election/election_methods.rs.                                   *)
(*                                                                         *)
(* Conventions.  A CandidateID is its wrapped index 0..n-1.  A Vec is a    *)
(* sequence, so v[i] of the source is v[i+1] here.  An f64 utility is      *)
(* written as the number of tenths of its decimal literal (0.3 is 3): two  *)
(* utilities compare as their literals do, and every sum, difference,      *)
(* quotient, product and rounding is computed on the f64 values the        *)
(* literals denote.  An Ordering is one of "Less", "Equal", "Greater".  A  *)
(* panic is the control state "panicked".                                  *)
(***************************************************************************)
EXTENDS Integers, Sequences, FiniteSets, TLC

VARIABLES
    voters,             \* the population: Vec<T: Voter>
    num_candidates,     \* the num_candidates argument
    tie_breaker,        \* the tie_breaker argument (a name, see TieBreak)
    pc,                 \* control state of the call in progress
    method,             \* name of the method called, "" before the call
    range,              \* rating range of the call in progress (0: none)
    ranking,            \* ranking returned by the driver, before any swap
    votes,              \* the (first, second) counters of the two finalists
    stack_ballots,      \* irv: the ballots as consumable queues
    eliminated,         \* irv: set of eliminated candidates
    elimination_order,  \* irv: log of eliminations, oldest first
    plurality,          \* irv: tally of the current round
    result              \* the Vec<CandidateID> the call returned

vars == <<voters, num_candidates, tie_breaker, pc, method, range, ranking,
          votes, stack_ballots, eliminated, elimination_order, plurality,
          result>>

-----------------------------------------------------------------------------
(* Bounds of the model *)

\* Largest population of HonestVoters
MaxVoters == 2

\* Largest population of RealOrdinalVoters
MaxBallots == 3

CandidateCounts == {2, 3}

UtilityLevels == {0, 5, 10}

-----------------------------------------------------------------------------
(* std::cmp::Ordering and the tie-breakers *)

cmp(a, b) == IF a < b THEN "Less" ELSE IF a > b THEN "Greater" ELSE "Equal"

then(o1, o2) == IF o1 = "Equal" THEN o2 ELSE o1

\* The closures a caller passes as tie_breaker:
\*   "cmp"      usize::cmp, the index order every test passes
\*   "rev"      |a, b| b.cmp(a), the reverse index order
\*   "equal"    |_, _| Ordering::Equal, a comparator that never decides
\*   "less"     |a, b| a.cmp(b).then(Ordering::Less), never Equal
\*   "greater"  |a, b| a.cmp(b).then(Ordering::Greater), never Equal
TieBreakers == {"cmp", "rev", "equal", "less", "greater"}

TieBreak(tb, a, b) ==
    CASE tb = "cmp"     -> cmp(a, b)
      [] tb = "rev"     -> cmp(b, a)
      [] tb = "equal"   -> "Equal"
      [] tb = "less"    -> then(cmp(a, b), "Less")
      [] tb = "greater" -> then(cmp(a, b), "Greater")

-----------------------------------------------------------------------------
(* Sequences helpers *)

Range(s) == {s[i] : i \in DOMAIN s}

\* elimination_order.reverse() left out
Reverse_omitted(s) == s

Reverse(s) == [i \in 1..Len(s) |-> s[Len(s) + 1 - i]]

swap(s, i, j) ==
    [k \in DOMAIN s |-> IF k = i + 1 THEN s[j + 1]
                        ELSE IF k = j + 1 THEN s[i + 1] ELSE s[k]]

\* slice::sort_unstable_by applied to the candidates 0..n-1 in index order.
\* For a slice of at most 20 elements the standard library sorts by insertion:
\* each element in turn moves left past every element it compares Less than,
\* so elements that compare Equal keep their original order.
SortUnstableBy(n, Compare(_, _)) ==
    LET RECURSIVE InsertTail(_, _)
        InsertTail(s, j) ==
            IF j > 1 /\ Compare(s[j], s[j - 1]) = "Less"
            THEN InsertTail(SubSeq(s, 1, j - 2) \o <<s[j], s[j - 1]>>
                              \o SubSeq(s, j + 1, n),
                            j - 1)
            ELSE s
        RECURSIVE InsertionSort(_, _)
        InsertionSort(s, i) ==
            IF i > n THEN s ELSE InsertionSort(InsertTail(s, i), i + 1)
    IN  InsertionSort([i \in 1..n |-> i - 1], 2)

\* sort_candidates_by_vec sorting by ascending instead of descending key
sort_candidates_by_vec_ascending(v, tb) ==
    LET Compare(a, b) == then(cmp(v[a + 1], v[b + 1]), TieBreak(tb, b, a))
    IN  SortUnstableBy(Len(v), Compare)

\* generate_candidates followed by sort_candidates_by_vec(candidates, v, tb)
sort_candidates_by_vec(v, tb) ==
    LET Compare(a, b) == then(cmp(v[b + 1], v[a + 1]), TieBreak(tb, b, a))
    IN  SortUnstableBy(Len(v), Compare)

\* slice::sort_unstable_by applied to a Vec of at most 20 candidates in any
\* order: the same insertion sort
SortVecUnstableBy(vec, Compare(_, _)) ==
    LET n == Len(vec)
        RECURSIVE InsertTail(_, _)
        InsertTail(s, j) ==
            IF j > 1 /\ Compare(s[j], s[j - 1]) = "Less"
            THEN InsertTail(SubSeq(s, 1, j - 2) \o <<s[j], s[j - 1]>>
                              \o SubSeq(s, j + 1, n),
                            j - 1)
            ELSE s
        RECURSIVE InsertionSort(_, _)
        InsertionSort(s, i) ==
            IF i > n THEN s ELSE InsertionSort(InsertTail(s, i), i + 1)
    IN  InsertionSort(vec, 2)

\* sort_candidates_by_vec comparing the keys alone
sort_candidates_by_vec_keys_only(candidates, v, tb) ==
    LET Compare(a, b) == cmp(v[b + 1], v[a + 1])
    IN  SortVecUnstableBy(candidates, Compare)

\* sort_candidates_by_vec(candidates, v, tie_breaker): the candidates it
\* leaves in the Vec it was passed
sort_candidates_by_vec_in_place(candidates, v, tb) ==
    LET Compare(a, b) == then(cmp(v[b + 1], v[a + 1]), TieBreak(tb, b, a))
    IN  SortVecUnstableBy(candidates, Compare)

-----------------------------------------------------------------------------
(* f64 arithmetic.  A natural number too wide for one machine word of the    *)
(* model is a sequence of limbs in base 2^15, least significant first, with  *)
(* no zero limb at the top (0 is the empty sequence).  A finite non-negative *)
(* f64 is <<m, e>>, standing for m * 2^e, with m an odd natural of at most   *)
(* 53 bits (0.0 is <<<<>>, 0>>): two f64 are equal exactly when their pairs  *)
(* are.  Every operation computes the exact result and rounds it to nearest, *)
(* ties to even, as IEEE 754 does; the values met here are far from          *)
(* overflow and from the subnormal range.                                    *)

Base == 32768

LimbBits == 15

MantissaBits == 53

Min2(a, b) == IF a <= b THEN a ELSE b

Max2(a, b) == IF a >= b THEN a ELSE b

\* Drop the zero limbs at the top
RECURSIVE BNorm(_)
BNorm(a) ==
    IF a # <<>> /\ a[Len(a)] = 0 THEN BNorm(SubSeq(a, 1, Len(a) - 1)) ELSE a

RECURSIVE BOfInt(_)
BOfInt(k) == IF k = 0 THEN <<>> ELSE <<k % Base>> \o BOfInt(k \div Base)

RECURSIVE BToInt(_)
BToInt(a) == IF a = <<>> THEN 0 ELSE a[1] + Base * BToInt(Tail(a))

Limb(a, i) == IF i <= Len(a) THEN a[i] ELSE 0

\* "Less", "Equal" or "Greater"
BCmp(a, b) ==
    IF Len(a) # Len(b) THEN cmp(Len(a), Len(b))
    ELSE LET differ == {i \in 1..Len(a) : a[i] # b[i]}
             top == CHOOSE i \in differ : \A j \in differ : j <= i
         IN  IF differ = {} THEN "Equal" ELSE cmp(a[top], b[top])

BAdd(a, b) ==
    LET n == Max2(Len(a), Len(b))
        RECURSIVE Go(_, _)
        Go(i, carry) ==
            IF i > n THEN (IF carry = 0 THEN <<>> ELSE <<carry>>)
            ELSE LET s == Limb(a, i) + Limb(b, i) + carry
                 IN  <<s % Base>> \o Go(i + 1, s \div Base)
    IN  Go(1, 0)

\* a - b for a >= b
BSub(a, b) ==
    LET RECURSIVE Go(_, _)
        Go(i, borrow) ==
            IF i > Len(a) THEN <<>>
            ELSE LET s == a[i] - Limb(b, i) - borrow
                 IN  IF s < 0 THEN <<s + Base>> \o Go(i + 1, 1)
                     ELSE <<s>> \o Go(i + 1, 0)
    IN  BNorm(Go(1, 0))

\* a * k for 0 <= k <= Base
BMulSmall(a, k) ==
    LET RECURSIVE Go(_, _)
        Go(i, carry) ==
            IF i > Len(a) THEN (IF carry = 0 THEN <<>> ELSE <<carry>>)
            ELSE LET s == a[i] * k + carry
                 IN  <<s % Base>> \o Go(i + 1, s \div Base)
    IN  IF k = 0 THEN <<>> ELSE Go(1, 0)

\* a * Base^n
BShlLimbs(a, n) == IF a = <<>> THEN <<>> ELSE [i \in 1..n |-> 0] \o a

\* a * 2^s
BShl(a, s) == BShlLimbs(BMulSmall(a, 2 ^ (s % LimbBits)), s \div LimbBits)

RECURSIVE BMul(_, _)
BMul(a, b) ==
    IF b = <<>> THEN <<>>
    ELSE BAdd(BMulSmall(a, b[1]), BShlLimbs(BMul(a, Tail(b)), 1))

\* Quotient and remainder of a by k, for 0 < k <= Base
BDivSmall(a, k) ==
    LET RECURSIVE Go(_, _)
        \* the limbs i..1 of the quotient, given the remainder above limb i
        Go(i, rem) ==
            IF i = 0 THEN [q |-> <<>>, r |-> rem]
            ELSE LET cur == rem * Base + a[i]
                     rest == Go(i - 1, cur % k)
                 IN  [q |-> Append(rest.q, cur \div k), r |-> rest.r]
        all == Go(Len(a), 0)
    IN  [q |-> BNorm(all.q), r |-> all.r]

\* floor(a / 2^s)
BShr(a, s) ==
    IF s \div LimbBits >= Len(a) THEN <<>>
    ELSE BDivSmall(SubSeq(a, s \div LimbBits + 1, Len(a)),
                   2 ^ (s % LimbBits)).q

\* Bit i of a, bit 0 being the least significant
BBit(a, i) == (Limb(a, i \div LimbBits + 1) \div 2 ^ (i % LimbBits)) % 2

\* Whether a is a multiple of 2^s
BLowZero(a, s) ==
    /\ \A i \in 1..Min2(s \div LimbBits, Len(a)) : a[i] = 0
    /\ Limb(a, s \div LimbBits + 1) % 2 ^ (s % LimbBits) = 0

\* Number of bits of a
BBitLen(a) ==
    IF a = <<>> THEN 0
    ELSE LimbBits * (Len(a) - 1)
           + (CHOOSE k \in 1..LimbBits :
                 2 ^ (k - 1) <= a[Len(a)] /\ a[Len(a)] < 2 ^ k)

\* Number of zero bits at the bottom of a # 0
BTrailingZeros(a) ==
    CHOOSE s \in 0..(LimbBits * Len(a)) : BLowZero(a, s) /\ BBit(a, s) = 1

\* One step of binary long division by d: bring down one bit of the dividend
DivStep(st, bit, d) ==
    LET r == BAdd(BMulSmall(st.r, 2), BOfInt(bit))
        q == BMulSmall(st.q, 2)
    IN  IF BCmp(r, d) = "Less" THEN [q |-> q, r |-> r]
        ELSE [q |-> BAdd(q, <<1>>), r |-> BSub(r, d)]

\* Binary long division over the bits hi down to lo of a, from the state st;
\* evaluated by halves, the upper half first
RECURSIVE DivBits(_, _, _, _, _)
DivBits(a, d, hi, lo, st) ==
    IF hi < lo THEN st
    ELSE IF hi = lo THEN DivStep(st, BBit(a, hi), d)
    ELSE LET mid == (hi + lo + 1) \div 2
             upper == DivBits(a, d, hi, mid, st)
         IN  IF DOMAIN upper = DOMAIN st
             THEN DivBits(a, d, mid - 1, lo, upper)
             ELSE upper

\* Quotient and remainder of a by d # 0
BDivMod(a, d) ==
    IF Len(d) = 1 THEN LET qr == BDivSmall(a, d[1])
                       IN  [q |-> qr.q, r |-> BOfInt(qr.r)]
    ELSE DivBits(a, d, BBitLen(a) - 1, 0, [q |-> <<>>, r |-> <<>>])

\* The pair of m * 2^e with m odd
F64Canon(m, e) ==
    IF m = <<>> THEN <<<<>>, 0>>
    ELSE LET s == BTrailingZeros(m) IN <<BShr(m, s), e + s>>

\* The f64 nearest to m * 2^e (plus a non-zero part below the last bit of m
\* if sticky), ties to even
F64Nearest(m, e, sticky) ==
    IF BBitLen(m) <= MantissaBits THEN F64Canon(m, e)
    ELSE LET s == BBitLen(m) - MantissaBits
             q == BShr(m, s)
             half == BBit(m, s - 1) = 1
             below == sticky \/ ~BLowZero(m, s - 1)
             up == half /\ (below \/ BBit(q, 0) = 1)
         IN  F64Canon(IF up THEN BAdd(q, <<1>>) ELSE q, e + s)

\* usize as f64
F64OfInt(k) == F64Canon(BOfInt(k), 0)

F64Add(a, b) ==
    LET e == Min2(a[2], b[2])
    IN  F64Nearest(BAdd(BShl(a[1], a[2] - e), BShl(b[1], b[2] - e)), e, FALSE)

\* a - b for a >= b
F64Sub(a, b) ==
    LET e == Min2(a[2], b[2])
    IN  F64Nearest(BSub(BShl(a[1], a[2] - e), BShl(b[1], b[2] - e)), e, FALSE)

F64Mul(a, b) == F64Nearest(BMul(a[1], b[1]), a[2] + b[2], FALSE)

\* a / b for b # 0: the quotient is computed to at least 55 bits
F64Div(a, b) ==
    LET k == Max2(0, MantissaBits + 2 + BBitLen(b[1]) - BBitLen(a[1]))
        qr == BDivMod(BShl(a[1], k), b[1])
    IN  F64Nearest(qr.q, a[2] - b[2] - k, qr.r # <<>>)

\* partial_cmp of two f64
F64Cmp(a, b) ==
    LET e == Min2(a[2], b[2])
    IN  BCmp(BShl(a[1], a[2] - e), BShl(b[1], b[2] - e))

\* f64::round followed by the cast to usize: halves round away from zero
F64Round(a) ==
    IF a[2] >= 0 THEN BToInt(BShl(a[1], a[2]))
    ELSE BToInt(BShr(a[1], -a[2])) + BBit(a[1], -a[2] - 1)

\* The f64 of each decimal literal t/10 a voter is built from, which is the
\* f64 nearest to it
Literals == [t \in 0..10 |-> F64Div(F64OfInt(t), F64OfInt(10))]

F64OfTenths(t) == Literals[t]

-----------------------------------------------------------------------------
(* Voters: src/src/election/voters *)

Indices(n) == [i \in 1..n |-> i - 1]

\* utilities.iter().copied().sum::<f64>(): the f64 additions in index order
Sum(utilities) ==
    LET RECURSIVE Go(_)
        Go(i) == IF i = 0 THEN F64OfInt(0)
                 ELSE F64Add(Go(i - 1), F64OfTenths(utilities[i]))
    IN  Go(Len(utilities))

MaxOf(s) == CHOOSE x \in Range(s) : \A y \in Range(s) : y <= x

MinOf(s) == CHOOSE x \in Range(s) : \A y \in Range(s) : x <= y

\* HonestOrdinalBallot sorted by ascending utility
HonestOrdinalBallot_ascending(utilities) ==
    SortUnstableBy(Len(utilities),
                   LAMBDA a, b : cmp(utilities[a + 1], utilities[b + 1]))

\* The strict ordinal ballot HonestVoter::new precomputes: the candidates
\* sorted by descending utility with sort_unstable_by and no tie-breaker.
HonestOrdinalBallot(utilities) ==
    SortUnstableBy(Len(utilities),
                   LAMBDA a, b : cmp(utilities[b + 1], utilities[a + 1]))

\* OrdinalEqualFold that never replaces its seed f64::NAN, so that every
\* candidate opens a group
RECURSIVE OrdinalEqualFold_seed_kept(_, _, _, _, _)
OrdinalEqualFold_seed_kept(utilities, ballot, i, vec, val) ==
    IF i > Len(ballot) THEN vec
    ELSE OrdinalEqualFold_seed_kept(utilities, ballot, i + 1,
                                    Append(vec, <<ballot[i]>>), val)

\* The fold of HonestVoter::new that groups the sorted ballot by equal
\* utility.  The seed f64::NAN differs from every utility; -1 stands for it.
RECURSIVE OrdinalEqualFold(_, _, _, _, _)
OrdinalEqualFold(utilities, ballot, i, vec, val) ==
    IF i > Len(ballot) THEN vec
    ELSE LET id == ballot[i]
         IN  IF utilities[id + 1] # val
             THEN OrdinalEqualFold(utilities, ballot, i + 1,
                                   Append(vec, <<id>>), utilities[id + 1])
             ELSE OrdinalEqualFold(utilities, ballot, i + 1,
                                   [vec EXCEPT ![Len(vec)] = Append(@, id)],
                                   val)

\* generate_approval_ballot(utilities, bound)
generate_approval_ballot(utilities, bound) ==
    LET n == Len(utilities)
        ballot == SelectSeq(Indices(n),
                            LAMBDA i : utilities[i + 1] >= bound)
        \* Iterator::max_by keeps the last of several maximal elements
        top == CHOOSE i \in 0..(n - 1) :
                   /\ utilities[i + 1] = MaxOf(utilities)
                   /\ \A j \in 0..(n - 1) :
                          utilities[j + 1] = MaxOf(utilities) => j <= i
    IN  IF ballot = <<>> THEN <<top>> ELSE ballot

\* The approval ballot HonestVoter::new precomputes.  A threshold behaviour
\* is [type |-> "Mean"], [type |-> "Preset", bound |-> b] or
\* [type |-> "Function", bound |-> b], b being the bound the boxed function
\* returns on these utilities.
HonestApprovalBallot(utilities, threshold_behavior) ==
    IF threshold_behavior.type = "Mean"
    THEN LET mean == F64Div(Sum(utilities), F64OfInt(Len(utilities)))
         IN  SelectSeq(Indices(Len(utilities)),
                       LAMBDA i : F64Cmp(F64OfTenths(utilities[i + 1]), mean)
                                      # "Less")
    ELSE generate_approval_ballot(utilities, threshold_behavior.bound)

\* scale_utilities_linearly dividing by the span without subtracting min
scale_utilities_linearly_unshifted(utilities) ==
    LET max == F64OfTenths(MaxOf(utilities))
        min == F64OfTenths(MinOf(utilities))
    IN  [i \in 1..Len(utilities) |->
            IF max # min
            THEN F64Div(F64OfTenths(utilities[i]), F64Sub(max, min))
            ELSE max]

\* scale_utilities_linearly: the scaled utilities, as f64
scale_utilities_linearly(utilities) ==
    LET max == F64OfTenths(MaxOf(utilities))
        min == F64OfTenths(MinOf(utilities))
    IN  [i \in 1..Len(utilities) |->
            IF max # min
            THEN F64Div(F64Sub(F64OfTenths(utilities[i]), min),
                        F64Sub(max, min))
            ELSE max]

\* HonestVoter::new(utilities, scales, threshold_behavior).  None is <<>>;
\* the HashMap is a function on the cached ranges.
HonestVoterNew(utilities, scales, threshold_behavior) ==
    LET candidates == HonestOrdinalBallot(utilities)
    IN
     [kind |-> "HonestVoter",
      utilities |-> utilities,
      scales |-> scales,
      threshold_behavior |-> threshold_behavior,
      cached_approval_ballot |->
          HonestApprovalBallot(utilities, threshold_behavior),
      cached_ordinal_vote |-> candidates,
      cached_ordinal_equal_vote |->
          OrdinalEqualFold(utilities, candidates, 1, <<>>, -1),
      cached_scaled_utilities |->
          IF scales THEN scale_utilities_linearly(utilities) ELSE <<>>,
      cached_cardinal_ballots |-> <<>>]

\* RealOrdinalVoter::new(ballot)
RealOrdinalVoterNew(ballot) ==
    [kind |-> "RealOrdinalVoter", ordinal_ballot |-> ballot]

\* Option<T>
None == [some |-> FALSE]

Some(x) == [some |-> TRUE, value |-> x]

\* The distinct ratings of a cardinal ballot, highest first
RECURSIVE Descending(_)
Descending(S) ==
    IF S = {} THEN <<>>
    ELSE LET top == CHOOSE x \in S : \A y \in S : y <= x
         IN  <<top>> \o Descending(S \ {top})

\* The ordinal-equal ballot RealCardinalVoter::new builds: one group per
\* rating, each in index order, the groups sorted by Reverse(rating)
RealOrdinalEqualBallot(ballot) ==
    LET scores == Descending(Range(ballot))
    IN  [k \in 1..Len(scores) |->
            SelectSeq(Indices(Len(ballot)),
                      LAMBDA i : ballot[i + 1] = scores[k])]

\* RealCardinalVoter::new(range, ballot, tiebreaker)
RealCardinalVoterNew(r, ballot, tiebreaker) ==
    [kind |-> "RealCardinalVoter",
     range |-> r,
     cardinal_ballot |-> ballot,
     approval_ballot |->
         IF r = 1
         THEN Some(SelectSeq(Indices(Len(ballot)),
                             LAMBDA i : ballot[i + 1] = 1))
         ELSE None,
     ordinal_equal_ballot |-> RealOrdinalEqualBallot(ballot),
     ordinal_ballot |->
         SortUnstableBy(Len(ballot),
                        LAMBDA i, j : then(cmp(ballot[j + 1], ballot[i + 1]),
                                           TieBreak(tiebreaker, i, j)))]

\* cast_ordinal_ballot returning a pre-cast ballot last choice first
cast_ordinal_ballot_reversed(v) ==
    IF v.kind = "HonestVoter" THEN v.cached_ordinal_vote
    ELSE Reverse(v.ordinal_ballot)

\* Voter::cast_ordinal_ballot
cast_ordinal_ballot(v) ==
    IF v.kind = "HonestVoter" THEN v.cached_ordinal_vote ELSE v.ordinal_ballot

\* Which voters answer Voter::cast_ordinal_equal_ballot without a panic
CanCastOrdinalEqual(v) == v.kind # "RealOrdinalVoter"

\* Voter::cast_ordinal_equal_ballot
cast_ordinal_equal_ballot(v) ==
    IF v.kind = "HonestVoter" THEN v.cached_ordinal_equal_vote
    ELSE v.ordinal_equal_ballot

\* (range as f64 * f).round() as usize
Rating(r, f) == F64Round(F64Mul(F64OfInt(r), f))

\* The ranges a cardinal ballot is asked at: those of the score and STAR
\* methods and those RealCardinalVoters are built with
RatedRanges == {1, 5, 10, 100}

\* The rating of each utility literal at each of these ranges
LiteralRatings ==
    [r \in RatedRanges |-> [t \in 0..10 |-> Rating(r, F64OfTenths(t))]]

\* HonestVoter::calculate_cardinal_ballot: the ballot computed for a range,
\* the rating of each adjusted utility
CardinalBallotFor(v, r) ==
    IF v.cached_scaled_utilities # <<>>
    THEN [i \in 1..Len(v.utilities) |->
             Rating(r, v.cached_scaled_utilities[i])]
    ELSE [i \in 1..Len(v.utilities) |-> LiteralRatings[r][v.utilities[i]]]

\* calculate_cardinal_ballot with a cache that holds one range at a time
calculate_cardinal_ballot_single(v, r) ==
    [v EXCEPT !.cached_cardinal_ballots =
        [k \in {r} |-> CardinalBallotFor(v, r)]]

\* HonestVoter::calculate_cardinal_ballot: the voter after the call
calculate_cardinal_ballot(v, r) ==
    IF r \in DOMAIN v.cached_cardinal_ballots THEN v
    ELSE [v EXCEPT !.cached_cardinal_ballots =
             [k \in DOMAIN @ \cup {r} |->
                 IF k = r THEN CardinalBallotFor(v, r) ELSE @[k]]]

\* CanCastCardinal of a RealCardinalVoter that answers at every range
CanCastCardinal_any_range(v, r) ==
    v.kind \in {"HonestVoter", "RealCardinalVoter"}

\* Which voters answer Voter::cast_cardinal_ballot(range) without a panic
CanCastCardinal(v, r) ==
    \/ v.kind = "HonestVoter"
    \/ v.kind = "RealCardinalVoter" /\ r = v.range

\* cast_cardinal_ballot answering from the cache whatever the range cached
cast_cardinal_ballot_any_range(v, r) ==
    IF v.kind = "HonestVoter"
    THEN IF DOMAIN v.cached_cardinal_ballots # {}
         THEN v.cached_cardinal_ballots[
                  CHOOSE k \in DOMAIN v.cached_cardinal_ballots :
                      \A j \in DOMAIN v.cached_cardinal_ballots : k <= j]
         ELSE calculate_cardinal_ballot(v, r).cached_cardinal_ballots[r]
    ELSE v.cardinal_ballot

\* Voter::cast_cardinal_ballot: the ballot returned
cast_cardinal_ballot(v, r) ==
    IF v.kind = "HonestVoter"
    THEN calculate_cardinal_ballot(v, r).cached_cardinal_ballots[r]
    ELSE v.cardinal_ballot

\* Which voters answer Voter::cast_approval_ballot without a panic
CanCastApproval(v) ==
    \/ v.kind = "HonestVoter"
    \/ v.kind = "RealCardinalVoter" /\ v.approval_ballot.some

\* Voter::cast_approval_ballot
cast_approval_ballot(v) ==
    IF v.kind = "HonestVoter" THEN v.cached_approval_ballot
    ELSE v.approval_ballot.value

\* Which voters answer Voter::honest_preference without a panic
CanHonestPreference(v) == v.kind = "HonestVoter"

\* HonestVoter::honest_preference(first, second)
honest_preference(v, first, second) ==
    IF v.utilities[first + 1] > v.utilities[second + 1] THEN "Greater"
    ELSE IF v.utilities[first + 1] < v.utilities[second + 1] THEN "Less"
    ELSE "Equal"

\* Which voters answer Voter::utilities and Voter::candidate_utility
\* without a panic
CanUtilities(v) == v.kind = "HonestVoter"

\* HonestVoter::candidate_utility(CandidateID(id))
candidate_utility(v, id) == v.utilities[id + 1]

-----------------------------------------------------------------------------
(* Tabulation drivers: src/src/election/election_methods.rs *)

\* The score ranges of the public methods: score_5, score_10, score_100
Ranges == {5, 10, 100}

Zeros(n) == [i \in 1..n |-> 0]

OrdinalBallots(vs) == [i \in 1..Len(vs) |-> cast_ordinal_ballot(vs[i])]

\* ballot[0] of an empty Vec is an index-out-of-bounds panic
TopChoicePanics(vs) == \E i \in 1..Len(vs) : cast_ordinal_ballot(vs[i]) = <<>>

\* The body of the plurality loop: vote_totals[ballot[0]] += 1
PluralityVote(vote_totals, ballot) ==
    [vote_totals EXCEPT ![ballot[1] + 1] = @ + 1]

\* The loop over the ballots lo..hi, in order, from the totals vote_totals.
\* It is evaluated by halves (first lo..mid, then mid+1..hi from the totals
\* the first half leaves), which keeps the evaluation depth logarithmic in
\* the number of ballots; the test on first_half, which is always true, makes
\* the first half be computed before the second is entered.
RECURSIVE PluralityTotals(_, _, _, _)
PluralityTotals(ballots, lo, hi, vote_totals) ==
    IF lo > hi THEN vote_totals
    ELSE IF lo = hi THEN PluralityVote(vote_totals, ballots[lo])
    ELSE LET mid == (lo + hi) \div 2
             first_half == PluralityTotals(ballots, lo, mid, vote_totals)
         IN  IF Len(first_half) = Len(vote_totals)
             THEN PluralityTotals(ballots, mid + 1, hi, first_half)
             ELSE first_half

\* plurality_driver: the ranking it returns when no voter panics
plurality_driver(vs, n, tb) ==
    sort_candidates_by_vec(
        PluralityTotals(OrdinalBallots(vs), 1, Len(vs), Zeros(n)), tb)

\* The voters as a driver that casts cardinal ballots leaves them: the loop
\* stops at the first voter that panics
RECURSIVE CastAllCardinal(_, _, _)
CastAllCardinal(vs, r, i) ==
    IF i > Len(vs) \/ ~CanCastCardinal(vs[i], r) THEN vs
    ELSE CastAllCardinal([vs EXCEPT ![i] = calculate_cardinal_ballot(@, r)],
                         r, i + 1)

CardinalPanics(vs, r) == \E i \in 1..Len(vs) : ~CanCastCardinal(vs[i], r)

CardinalBallots(vs, r) == [i \in 1..Len(vs) |-> cast_cardinal_ballot(vs[i], r)]

\* The loop vote_totals[id] += score over the cardinal ballots
\* ScoreTotals with vote_totals[id] = score in place of += score
RECURSIVE ScoreTotals_assigning(_, _, _)
ScoreTotals_assigning(ballots, i, vote_totals) ==
    IF i > Len(ballots) THEN vote_totals
    ELSE ScoreTotals_assigning(ballots, i + 1,
                               [id \in DOMAIN vote_totals |-> ballots[i][id]])

RECURSIVE ScoreTotals(_, _, _)
ScoreTotals(ballots, i, vote_totals) ==
    IF i > Len(ballots) THEN vote_totals
    ELSE ScoreTotals(ballots, i + 1,
                     [id \in DOMAIN vote_totals |->
                         vote_totals[id] + ballots[i][id]])

\* score_driver: the ranking it returns when no voter panics
score_driver(vs, n, tb, r) ==
    sort_candidates_by_vec(ScoreTotals(CardinalBallots(vs, r), 1, Zeros(n)), tb)

ApprovalPanics(vs) == \E i \in 1..Len(vs) : ~CanCastApproval(vs[i])

\* The loop approval_count[id] += 1 over the approval ballots
RECURSIVE ApprovalCount(_, _, _)
ApprovalCount(vs, i, approval_count) ==
    IF i > Len(vs) THEN approval_count
    ELSE ApprovalCount(vs, i + 1,
             [k \in DOMAIN approval_count |->
                 approval_count[k]
                   + Cardinality({j \in DOMAIN cast_approval_ballot(vs[i]) :
                                     cast_approval_ballot(vs[i])[j] = k - 1})])

\* approval_driver: the ranking it returns when no voter panics
approval_driver(vs, n, tb) ==
    sort_candidates_by_vec(ApprovalCount(vs, 1, Zeros(n)), tb)

HonestPreferencePanics(vs) ==
    \E i \in 1..Len(vs) : ~CanHonestPreference(vs[i])

\* RunoffVote with the two counters exchanged
RunoffVote_exchanged(vote_totals, v, first_candidate, second_candidate) ==
    LET pref == honest_preference(v, first_candidate, second_candidate)
    IN  IF pref = "Less" THEN [vote_totals EXCEPT ![1] = @ + 1]
        ELSE IF pref = "Greater" THEN [vote_totals EXCEPT ![2] = @ + 1]
        ELSE vote_totals

\* The body of the loop of honest_runoff_driver: vote_totals[0] counts the
\* voters who prefer first_candidate, vote_totals[1] those who prefer
\* second_candidate, and an indifferent voter counts for neither
RunoffVote(vote_totals, v, first_candidate, second_candidate) ==
    LET pref == honest_preference(v, first_candidate, second_candidate)
    IN  IF pref = "Less" THEN [vote_totals EXCEPT ![2] = @ + 1]
        ELSE IF pref = "Greater" THEN [vote_totals EXCEPT ![1] = @ + 1]
        ELSE vote_totals

\* The loop of honest_runoff_driver over the voters lo..hi, in order,
\* evaluated by halves
RECURSIVE RunoffTotals(_, _, _, _, _, _)
RunoffTotals(vs, lo, hi, first_candidate, second_candidate, vote_totals) ==
    IF lo > hi THEN vote_totals
    ELSE IF lo = hi
         THEN RunoffVote(vote_totals, vs[lo], first_candidate,
                         second_candidate)
    ELSE LET mid == (lo + hi) \div 2
             first_half == RunoffTotals(vs, lo, mid, first_candidate,
                                        second_candidate, vote_totals)
         IN  IF Len(first_half) = Len(vote_totals)
             THEN RunoffTotals(vs, mid + 1, hi, first_candidate,
                               second_candidate, first_half)
             ELSE first_half

\* honest_runoff_driver that takes its failure branch, here the candidate -1,
\* when the comparison of the two positions says Equal
honest_runoff_driver_strict(vs, tb, first_candidate, second_candidate) ==
    LET vote_totals == RunoffTotals(vs, 1, Len(vs), first_candidate,
                                    second_candidate, <<0, 0>>)
        ord == then(cmp(vote_totals[1], vote_totals[2]), TieBreak(tb, 0, 1))
    IN  IF ord = "Greater" THEN first_candidate
        ELSE IF ord = "Less" THEN second_candidate
        ELSE -1

\* honest_runoff_driver returning the finalist that Iterator::min_by would
honest_runoff_driver_min(vs, tb, first_candidate, second_candidate) ==
    LET vote_totals == RunoffTotals(vs, 1, Len(vs), first_candidate,
                                    second_candidate, <<0, 0>>)
        ord == then(cmp(vote_totals[1], vote_totals[2]), TieBreak(tb, 0, 1))
    IN  IF ord = "Greater" THEN second_candidate ELSE first_candidate

\* honest_runoff_driver: Iterator::max_by over the positions 0 and 1 keeps
\* position 0 only when the comparison says Greater
honest_runoff_driver(vs, tb, first_candidate, second_candidate) ==
    LET vote_totals == RunoffTotals(vs, 1, Len(vs), first_candidate,
                                    second_candidate, <<0, 0>>)
        ord == then(cmp(vote_totals[1], vote_totals[2]), TieBreak(tb, 0, 1))
    IN  IF ord = "Greater" THEN first_candidate ELSE second_candidate

\* CreditOf without the break: the finalist listed last takes the credit
RECURSIVE CreditOf_no_break(_, _, _, _)
CreditOf_no_break(ballot, j, first_c, second_c) ==
    LET rest == IF j >= Len(ballot) THEN "none"
                ELSE CreditOf_no_break(ballot, j + 1, first_c, second_c)
    IN  IF j > Len(ballot) THEN "none"
        ELSE IF rest # "none" THEN rest
        ELSE IF ballot[j] = first_c THEN "first"
        ELSE IF ballot[j] = second_c THEN "second"
        ELSE "none"

\* contingent_vote: which finalist a ballot credits, scanning it from
\* position j in preference order
RECURSIVE CreditOf(_, _, _, _)
CreditOf(ballot, j, first_c, second_c) ==
    IF j > Len(ballot) THEN "none"
    ELSE IF ballot[j] = first_c THEN "first"
    ELSE IF ballot[j] = second_c THEN "second"
    ELSE CreditOf(ballot, j + 1, first_c, second_c)

\* contingent_vote: the fold that credits the two finalists
RECURSIVE ContingentVotes(_, _, _, _, _)
ContingentVotes(ballots, i, first_c, second_c, acc) ==
    IF i > Len(ballots) THEN acc
    ELSE LET credit == CreditOf(ballots[i], 1, first_c, second_c)
         IN  ContingentVotes(ballots, i + 1, first_c, second_c,
                 IF credit = "first" THEN <<acc[1] + 1, acc[2]>>
                 ELSE IF credit = "second" THEN <<acc[1], acc[2] + 1>>
                 ELSE acc)

\* ElectionMethods::contingent_vote as a function of the population: the
\* ranking returned, <<>> standing for a panic
contingent_vote(vs, n, tb) ==
    IF TopChoicePanics(vs) \/ n < 2 THEN <<>>
    ELSE LET vote_totals == PluralityTotals(OrdinalBallots(vs), 1, Len(vs),
                                            Zeros(n))
             candidates == sort_candidates_by_vec(vote_totals, tb)
             tally == ContingentVotes(OrdinalBallots(vs), 1, candidates[1],
                                      candidates[2], <<0, 0>>)
             ord == TieBreak(tb, candidates[1], candidates[2])
         IN  IF tally[1] > tally[2] THEN candidates
             ELSE IF tally[2] > tally[1] THEN swap(candidates, 0, 1)
             ELSE IF ord = "Less" THEN swap(candidates, 0, 1)
             ELSE IF ord = "Equal" THEN <<>>
             ELSE candidates

\* StarVotes counting a ballot for the first finalist when the tie-breaker
\* answers Equal
RECURSIVE StarVotes_lenient(_, _, _, _, _)
StarVotes_lenient(ballots, i, first, second, tb) ==
    IF i > Len(ballots) THEN [panic |-> FALSE, first |-> first,
                              second |-> second]
    ELSE LET ballot == ballots[i]
         IN  IF first >= Len(ballot) \/ second >= Len(ballot)
             THEN [panic |-> TRUE, first |-> first, second |-> second]
             ELSE IF ballot[first + 1] > ballot[second + 1]
             THEN StarVotes_lenient(ballots, i + 1, first + 1, second, tb)
             ELSE IF ballot[first + 1] < ballot[second + 1]
             THEN StarVotes_lenient(ballots, i + 1, first, second + 1, tb)
             ELSE IF TieBreak(tb, ballot[first + 1], ballot[second + 1])
                        = "Less"
             THEN StarVotes_lenient(ballots, i + 1, first, second + 1, tb)
             ELSE StarVotes_lenient(ballots, i + 1, first + 1, second, tb)

\* star_driver: the loop over the ballots.  The counters first and second
\* themselves index the ballot (ballot[first], ballot[second]); an index past
\* the end of the ballot and a tie-breaker answering Equal both panic.
RECURSIVE StarVotes(_, _, _, _, _)
StarVotes(ballots, i, first, second, tb) ==
    IF i > Len(ballots) THEN [panic |-> FALSE, first |-> first,
                              second |-> second]
    ELSE LET ballot == ballots[i]
         IN  IF first >= Len(ballot) \/ second >= Len(ballot)
             THEN [panic |-> TRUE, first |-> first, second |-> second]
             ELSE IF ballot[first + 1] > ballot[second + 1]
             THEN StarVotes(ballots, i + 1, first + 1, second, tb)
             ELSE IF ballot[first + 1] < ballot[second + 1]
             THEN StarVotes(ballots, i + 1, first, second + 1, tb)
             ELSE LET ord == TieBreak(tb, ballot[first + 1],
                                      ballot[second + 1])
                  IN  IF ord = "Less"
                      THEN StarVotes(ballots, i + 1, first, second + 1, tb)
                      ELSE IF ord = "Greater"
                      THEN StarVotes(ballots, i + 1, first + 1, second, tb)
                      ELSE [panic |-> TRUE, first |-> first,
                            second |-> second]

\* AdvanceBallot that never pops an eliminated front
AdvanceBallot_no_pop(ballot, elim) == ballot

\* irv: pop the front of a ballot while it names an eliminated candidate
RECURSIVE AdvanceBallot(_, _)
AdvanceBallot(ballot, elim) ==
    IF ballot # <<>> /\ Head(ballot) \in elim
    THEN AdvanceBallot(Tail(ballot), elim)
    ELSE ballot

\* irv: plurality[id] += 1 for the front of every ballot that is not exhausted
RoundVote(tally, ballot) ==
    IF ballot # <<>> THEN [tally EXCEPT ![Head(ballot) + 1] = @ + 1]
    ELSE tally

\* irv: the tally loop over the ballots lo..hi, in order, evaluated by halves
RECURSIVE RoundTally(_, _, _, _)
RoundTally(ballots, lo, hi, tally) ==
    IF lo > hi THEN tally
    ELSE IF lo = hi THEN RoundVote(tally, ballots[lo])
    ELSE LET mid == (lo + hi) \div 2
             first_half == RoundTally(ballots, lo, mid, tally)
         IN  IF Len(first_half) = Len(tally)
             THEN RoundTally(ballots, mid + 1, hi, first_half)
             ELSE first_half

\* irv: Iterator::min_by over the (index, tally) pairs items[i..], acc being
\* the minimum so far; the later element replaces it only on Greater.  The
\* comparator orders by tally and hands the two tallies to the tie-breaker.
RECURSIVE MinBy(_, _, _, _)
MinBy(items, i, acc, tb) ==
    IF i > Len(items) THEN acc
    ELSE LET a == acc[2]
             b == items[i][2]
         IN  MinBy(items, i + 1,
                   IF then(cmp(a, b), TieBreak(tb, a, b)) = "Greater"
                   THEN items[i] ELSE acc,
                   tb)

\* Loser chosen among all the candidates, the eliminated ones included
Loser_unfiltered(tally, elim, tb) ==
    LET items == [i \in 1..Len(tally) |-> <<i - 1, tally[i]>>]
    IN  MinBy(items, 2, items[1], tb)[1]

\* irv: the loser of the round, among the candidates not yet eliminated
Loser(tally, elim, tb) ==
    LET items == SelectSeq([i \in 1..Len(tally) |-> <<i - 1, tally[i]>>],
                           LAMBDA it : it[1] \notin elim)
    IN  MinBy(items, 2, items[1], tb)[1]

-----------------------------------------------------------------------------
(* The populations an election is called with *)

\* HonestVoters built from every utility vector over the utility levels
HonestVoters(n) ==
    {HonestVoterNew(u, FALSE, [type |-> "Mean"]) :
        u \in [1..n -> UtilityLevels]}

\* RealOrdinalVoters holding every ranking of some of the candidates,
\* complete, truncated or empty
RealOrdinalVoters(n) ==
    {RealOrdinalVoterNew(b) :
        b \in {p \in UNION {[1..k -> 0..(n - 1)] : k \in 0..n} :
                  \A i, j \in DOMAIN p : i # j => p[i] # p[j]}}

Populations(pool, max) == UNION {[1..k -> pool] : k \in 0..max}

\* The state in which a caller is about to call a method
Idle ==
    /\ pc = "idle"
    /\ method = ""
    /\ range = 0
    /\ ranking = <<>>
    /\ votes = <<0, 0>>
    /\ stack_ballots = <<>>
    /\ eliminated = {}
    /\ elimination_order = <<>>
    /\ plurality = <<>>
    /\ result = <<>>

\* An election over a population of HonestVoters
Init ==
    /\ num_candidates \in CandidateCounts
    /\ voters \in Populations(HonestVoters(num_candidates), MaxVoters)
    /\ tie_breaker \in TieBreakers
    /\ Idle

\* An election over a population of RealOrdinalVoters
InitOrdinal ==
    /\ num_candidates \in CandidateCounts
    /\ voters \in Populations(RealOrdinalVoters(num_candidates), MaxBallots)
    /\ tie_breaker \in TieBreakers
    /\ Idle

-----------------------------------------------------------------------------
(* The voting methods: impl ElectionMethods *)

irv_vars == <<stack_ballots, eliminated, elimination_order, plurality>>

\* ElectionMethods::plurality
Plurality ==
    /\ pc = "idle"
    /\ method' = "plurality"
    /\ IF TopChoicePanics(voters)
       THEN pc' = "panicked" /\ ranking' = <<>> /\ result' = <<>>
       ELSE LET r == plurality_driver(voters, num_candidates, tie_breaker) IN
                ranking' = r /\ result' = r /\ pc' = "returned"
    /\ UNCHANGED <<voters, num_candidates, tie_breaker, range, votes, irv_vars>>

\* ElectionMethods::fptp_runoff up to the return of plurality_driver
FptpRunoff ==
    /\ pc = "idle"
    /\ method' = "fptp_runoff"
    /\ IF TopChoicePanics(voters)
       THEN pc' = "panicked" /\ ranking' = <<>>
       ELSE LET r == plurality_driver(voters, num_candidates, tie_breaker) IN
                ranking' = r /\ pc' = "runoff"
    /\ UNCHANGED <<voters, num_candidates, tie_breaker, range, votes, irv_vars,
                   result>>

\* ElectionMethods::approval
Approval ==
    /\ pc = "idle"
    /\ method' = "approval"
    /\ IF ApprovalPanics(voters)
       THEN pc' = "panicked" /\ ranking' = <<>> /\ result' = <<>>
       ELSE LET r == approval_driver(voters, num_candidates, tie_breaker) IN
                ranking' = r /\ result' = r /\ pc' = "returned"
    /\ UNCHANGED <<voters, num_candidates, tie_breaker, range, votes, irv_vars>>

\* ElectionMethods::approval_runoff up to the return of approval_driver
ApprovalRunoff ==
    /\ pc = "idle"
    /\ method' = "approval_runoff"
    /\ IF ApprovalPanics(voters)
       THEN pc' = "panicked" /\ ranking' = <<>>
       ELSE LET r == approval_driver(voters, num_candidates, tie_breaker) IN
                ranking' = r /\ pc' = "runoff"
    /\ UNCHANGED <<voters, num_candidates, tie_breaker, range, votes, irv_vars,
                   result>>

\* ElectionMethods::score_5, score_10, score_100
Score ==
    /\ pc = "idle"
    /\ method' = "score"
    /\ \E k \in Ranges :
        /\ range' = k
        /\ voters' = CastAllCardinal(voters, k, 1)
        /\ IF CardinalPanics(voters, k)
           THEN pc' = "panicked" /\ ranking' = <<>> /\ result' = <<>>
           ELSE LET r == score_driver(voters, num_candidates, tie_breaker, k) IN
                    ranking' = r /\ result' = r /\ pc' = "returned"
    /\ UNCHANGED <<num_candidates, tie_breaker, votes, irv_vars>>

\* ElectionMethods::score_5_runoff, score_10_runoff, score_100_runoff up to
\* the return of score_driver
ScoreRunoff ==
    /\ pc = "idle"
    /\ method' = "score_runoff"
    /\ \E k \in Ranges :
        /\ range' = k
        /\ voters' = CastAllCardinal(voters, k, 1)
        /\ IF CardinalPanics(voters, k)
           THEN pc' = "panicked" /\ ranking' = <<>>
           ELSE LET r == score_driver(voters, num_candidates, tie_breaker, k) IN
                    ranking' = r /\ pc' = "runoff"
    /\ UNCHANGED <<num_candidates, tie_breaker, votes, irv_vars, result>>

\* The tail shared by fptp_runoff, approval_runoff and score_k_runoff:
\* honest_runoff_driver between the top two, then the swap
RunoffDecide ==
    /\ pc = "runoff"
    /\ IF Len(ranking) < 2 \/ HonestPreferencePanics(voters)
       THEN pc' = "panicked" /\ result' = <<>>
       ELSE LET winner == honest_runoff_driver(voters, tie_breaker,
                                               ranking[1], ranking[2])
            IN  /\ result' = IF winner = ranking[2] THEN swap(ranking, 0, 1)
                             ELSE ranking
                /\ pc' = "returned"
    /\ UNCHANGED <<voters, num_candidates, tie_breaker, method, range, ranking,
                   votes, irv_vars>>

\* ElectionMethods::contingent_vote up to the fold over the ballots
ContingentVote ==
    /\ pc = "idle"
    /\ method' = "contingent_vote"
    /\ IF TopChoicePanics(voters) \/ num_candidates < 2
       THEN pc' = "panicked" /\ ranking' = <<>> /\ votes' = votes
       ELSE LET vote_totals == PluralityTotals(OrdinalBallots(voters), 1,
                                    Len(voters), Zeros(num_candidates))
                r == sort_candidates_by_vec(vote_totals, tie_breaker)
            IN  /\ ranking' = r
                /\ votes' = ContingentVotes(OrdinalBallots(voters), 1,
                                            r[1], r[2], <<0, 0>>)
                /\ pc' = "cv_decide"
    /\ UNCHANGED <<voters, num_candidates, tie_breaker, range, irv_vars, result>>

\* CvDecide that keeps the ranking when the tie-breaker answers Equal
CvDecide_lenient ==
    /\ pc = "cv_decide"
    /\ pc' = "returned"
    /\ result' = IF votes[2] > votes[1]
                    \/ (votes[1] = votes[2]
                        /\ TieBreak(tie_breaker, ranking[1], ranking[2])
                             = "Less")
                 THEN swap(ranking, 0, 1) ELSE ranking
    /\ UNCHANGED <<voters, num_candidates, tie_breaker, method, range, ranking,
                   votes, irv_vars>>

\* ElectionMethods::contingent_vote: the final comparison of the two totals
CvDecide ==
    /\ pc = "cv_decide"
    /\ IF votes[1] > votes[2]
       THEN pc' = "returned" /\ result' = ranking
       ELSE IF votes[2] > votes[1]
       THEN pc' = "returned" /\ result' = swap(ranking, 0, 1)
       ELSE LET ord == TieBreak(tie_breaker, ranking[1], ranking[2])
            IN  IF ord = "Less"
                THEN pc' = "returned" /\ result' = swap(ranking, 0, 1)
                ELSE IF ord = "Equal"
                THEN pc' = "panicked" /\ result' = <<>>
                ELSE pc' = "returned" /\ result' = ranking
    /\ UNCHANGED <<voters, num_candidates, tie_breaker, method, range, ranking,
                   votes, irv_vars>>

\* star_driver (star_5, star_10, star_100) up to the loop over the ballots
Star ==
    /\ pc = "idle"
    /\ method' = "star"
    /\ \E k \in Ranges :
        /\ range' = k
        /\ voters' = CastAllCardinal(voters, k, 1)
        /\ IF CardinalPanics(voters, k) \/ num_candidates < 2
           THEN pc' = "panicked" /\ ranking' = <<>> /\ votes' = votes
           ELSE LET r == score_driver(voters, num_candidates, tie_breaker, k) IN
                  LET sv == StarVotes(CardinalBallots(voters, k), 1, 0, 0,
                                      tie_breaker)
                  IN  /\ ranking' = r
                      /\ votes' = <<sv.first, sv.second>>
                      /\ pc' = IF sv.panic THEN "panicked" ELSE "star_decide"
    /\ UNCHANGED <<num_candidates, tie_breaker, irv_vars, result>>

\* star_driver: the final comparison of the two counters
StarDecide ==
    /\ pc = "star_decide"
    /\ LET first == votes[1]
           second == votes[2]
       IN  IF first > second
           THEN pc' = "returned" /\ result' = ranking
           ELSE IF second < first
           THEN pc' = "returned" /\ result' = swap(ranking, 0, 1)
           ELSE LET ord == TieBreak(tie_breaker, first, second)
                IN  IF ord = "Less"
                    THEN pc' = "returned" /\ result' = swap(ranking, 0, 1)
                    ELSE IF ord = "Equal"
                    THEN pc' = "panicked" /\ result' = <<>>
                    ELSE pc' = "returned" /\ result' = ranking
    /\ UNCHANGED <<voters, num_candidates, tie_breaker, method, range, ranking,
                   votes, irv_vars>>

\* ElectionMethods::irv up to the top of the loop
Irv ==
    /\ pc = "idle"
    /\ method' = "irv"
    /\ stack_ballots' = OrdinalBallots(voters)
    /\ eliminated' = {}
    /\ elimination_order' = <<>>
    /\ plurality' = Zeros(num_candidates)
    /\ pc' = "irv_tabulate"
    /\ UNCHANGED <<voters, num_candidates, tie_breaker, range, ranking, votes,
                   result>>

\* IrvTabulate popping the voters' own ordinal ballots instead of copies
IrvTabulate_consuming ==
    /\ pc = "irv_tabulate"
    /\ stack_ballots' = [i \in 1..Len(stack_ballots) |->
                            AdvanceBallot(stack_ballots[i], eliminated)]
    /\ voters' = [i \in 1..Len(voters) |->
                     [voters[i] EXCEPT !.cached_ordinal_vote =
                         stack_ballots'[i]]]
    /\ plurality' = RoundTally(stack_ballots', 1, Len(stack_ballots'),
                               plurality)
    /\ pc' = "irv_eliminate"
    /\ UNCHANGED <<num_candidates, tie_breaker, method, range, ranking,
                   votes, eliminated, elimination_order, result>>

\* irv: the tabulation of one round
IrvTabulate ==
    /\ pc = "irv_tabulate"
    /\ stack_ballots' = [i \in 1..Len(stack_ballots) |->
                            AdvanceBallot(stack_ballots[i], eliminated)]
    /\ plurality' = RoundTally(stack_ballots', 1, Len(stack_ballots'),
                               plurality)
    /\ pc' = "irv_eliminate"
    /\ UNCHANGED <<voters, num_candidates, tie_breaker, method, range, ranking,
                   votes, eliminated, elimination_order, result>>

\* IrvEliminate that leaves the tallies of the round in place for the next
IrvEliminate_no_reset ==
    /\ pc = "irv_eliminate"
    /\ IF \A i \in 0..(num_candidates - 1) : i \in eliminated
       THEN \* min_by yields None and unwrap panics
            /\ pc' = "panicked"
            /\ UNCHANGED <<eliminated, elimination_order, plurality, result>>
       ELSE LET loser == Loser(plurality, eliminated, tie_breaker)
            IN  /\ elimination_order' = Append(elimination_order, loser)
                /\ eliminated' = eliminated \cup {loser}
                /\ IF Len(elimination_order') = num_candidates - 1
                   THEN LET winner ==
                                CHOOSE i \in 0..(num_candidates - 1) :
                                    /\ i \notin eliminated'
                                    /\ \A j \in 0..(i - 1) : j \in eliminated'
                        IN  /\ result' = Reverse(Append(elimination_order',
                                                        winner))
                            /\ pc' = "returned"
                            /\ plurality' = plurality
                   ELSE /\ plurality' = plurality
                        /\ pc' = "irv_tabulate"
                        /\ result' = result
    /\ UNCHANGED <<voters, num_candidates, tie_breaker, method, range, ranking,
                   votes, stack_ballots>>

\* IrvEliminate that stops once the log holds num_candidates - 1 entries or
\* more, the log itself being the ranking when no candidate is left
IrvEliminate_at_least ==
    /\ pc = "irv_eliminate"
    /\ IF \A i \in 0..(num_candidates - 1) : i \in eliminated
       THEN \* min_by yields None and unwrap panics
            /\ pc' = "panicked"
            /\ UNCHANGED <<eliminated, elimination_order, plurality, result>>
       ELSE LET loser == Loser(plurality, eliminated, tie_breaker)
            IN  /\ elimination_order' = Append(elimination_order, loser)
                /\ eliminated' = eliminated \cup {loser}
                /\ IF Len(elimination_order') >= num_candidates - 1
                   THEN /\ result' =
                               IF \A i \in 0..(num_candidates - 1) :
                                      i \in eliminated'
                               THEN Reverse(elimination_order')
                               ELSE Reverse(Append(elimination_order',
                                        CHOOSE i \in 0..(num_candidates - 1) :
                                            /\ i \notin eliminated'
                                            /\ \A j \in 0..(i - 1) :
                                                   j \in eliminated'))
                        /\ pc' = "returned"
                        /\ plurality' = plurality
                   ELSE /\ plurality' = Zeros(num_candidates)
                        /\ pc' = "irv_tabulate"
                        /\ result' = result
    /\ UNCHANGED <<voters, num_candidates, tie_breaker, method, range, ranking,
                   votes, stack_ballots>>

\* irv: the elimination that ends a round, and the return after the last one
IrvEliminate ==
    /\ pc = "irv_eliminate"
    /\ IF \A i \in 0..(num_candidates - 1) : i \in eliminated
       THEN \* min_by yields None and unwrap panics
            /\ pc' = "panicked"
            /\ UNCHANGED <<eliminated, elimination_order, plurality, result>>
       ELSE LET loser == Loser(plurality, eliminated, tie_breaker)
            IN  /\ elimination_order' = Append(elimination_order, loser)
                /\ eliminated' = eliminated \cup {loser}
                /\ IF Len(elimination_order') = num_candidates - 1
                   THEN LET winner ==
                                CHOOSE i \in 0..(num_candidates - 1) :
                                    /\ i \notin eliminated'
                                    /\ \A j \in 0..(i - 1) : j \in eliminated'
                        IN  /\ result' = Reverse(Append(elimination_order',
                                                        winner))
                            /\ pc' = "returned"
                            /\ plurality' = plurality
                   ELSE /\ plurality' = Zeros(num_candidates)
                        /\ pc' = "irv_tabulate"
                        /\ result' = result
    /\ UNCHANGED <<voters, num_candidates, tie_breaker, method, range, ranking,
                   votes, stack_ballots>>

Next ==
    \/ Plurality
    \/ FptpRunoff
    \/ ContingentVote
    \/ CvDecide
    \/ Irv
    \/ IrvTabulate
    \/ IrvEliminate
    \/ Approval
    \/ ApprovalRunoff
    \/ Score
    \/ ScoreRunoff
    \/ RunoffDecide
    \/ Star
    \/ StarDecide

Spec == Init /\ [][Next]_vars

\* The populations the unit tests of election_methods.rs build.  HV is
\* HonestVoter::new(utilities, scales, Mean), utilities in tenths.
HV(utilities, scales) == HonestVoterNew(utilities, scales, [type |-> "Mean"])

majority_election ==
    <<HV(<<1, 4, 6>>, TRUE), HV(<<5, 4, 8>>, TRUE), HV(<<3, 7, 2>>, FALSE)>>

runoff_differs ==
    <<HV(<<1, 4, 6>>, TRUE)>>
      \o [i \in 1..3 |-> HV(<<5, 4, 8>>, TRUE)]
      \o [i \in 1..3 |-> HV(<<3, 7, 2>>, FALSE)]
      \o [i \in 1..2 |-> HV(<<8, 6, 1>>, FALSE)]

irv_differs ==
    [i \in 1..48 |-> IF i % 2 = 1 THEN HV(<<10, 9, 5, 4, 3>>, FALSE)
                     ELSE HV(<<9, 10, 5, 4, 3>>, FALSE)]
      \o [i \in 1..40 |-> IF i % 2 = 1 THEN HV(<<2, 3, 10, 9, 7>>, FALSE)
                          ELSE HV(<<3, 2, 7, 10, 9>>, FALSE)]
      \o [i \in 1..12 |-> HV(<<3, 2, 9, 7, 10>>, FALSE)]

Fixtures ==
    {[voters |-> majority_election, num_candidates |-> 3],
     [voters |-> runoff_differs, num_candidates |-> 3],
     [voters |-> irv_differs, num_candidates |-> 5]}

\* An election over one of the test populations
InitFixture ==
    /\ \E f \in Fixtures :
          voters = f.voters /\ num_candidates = f.num_candidates
    /\ tie_breaker \in TieBreakers
    /\ Idle

\* The methods the unit tests call
NextFixture ==
    \/ Plurality
    \/ FptpRunoff
    \/ RunoffDecide
    \/ Irv
    \/ IrvTabulate
    \/ IrvEliminate

SpecFixture == InitFixture /\ [][NextFixture]_vars

\* plurality and contingent_vote, which read the ordinal ballots once
NextOrdinal ==
    \/ Plurality
    \/ ContingentVote
    \/ CvDecide

SpecOrdinal == InitOrdinal /\ [][NextOrdinal]_vars

\* irv alone
NextIrv ==
    \/ Irv
    \/ IrvTabulate
    \/ IrvEliminate

SpecIrv == InitOrdinal /\ [][NextIrv]_vars

\* The methods that end in the honest head-to-head runoff
NextRunoff ==
    \/ FptpRunoff
    \/ ApprovalRunoff
    \/ ScoreRunoff
    \/ RunoffDecide

SpecRunoff == Init /\ [][NextRunoff]_vars

\* score_5, score_10 and score_100
NextScore == Score

SpecScore == Init /\ [][NextScore]_vars

\* The methods that end in a decision the tie-breaker may have to make
NextDecide ==
    \/ ContingentVote
    \/ CvDecide
    \/ Star
    \/ StarDecide

SpecDecide == Init /\ [][NextDecide]_vars

\* The star methods alone
NextStar ==
    \/ Star
    \/ StarDecide

SpecStar == Init /\ [][NextStar]_vars

\* The utilities the voters of a majority election are built from, in tenths:
\* a voter is indifferent between the candidates it gives the same utility
MajorityUtilityLevels == {0, 10}

\* An election over HonestVoters, or over RealOrdinalVoters, in which a
\* candidate may head more than half of the ordinal ballots
InitMajority ==
    /\ num_candidates \in CandidateCounts
    /\ \/ voters \in Populations(
                         {HonestVoterNew(u, FALSE, [type |-> "Mean"]) :
                             u \in [1..num_candidates -> MajorityUtilityLevels]},
                         MaxBallots)
       \/ voters \in Populations(RealOrdinalVoters(num_candidates), MaxBallots)
    /\ tie_breaker \in TieBreakers
    /\ Idle

\* The methods that read the strict ordinal ballots
NextMajority ==
    \/ Plurality
    \/ FptpRunoff
    \/ RunoffDecide
    \/ ContingentVote
    \/ CvDecide
    \/ Irv
    \/ IrvTabulate
    \/ IrvEliminate

SpecMajority == InitMajority /\ [][NextMajority]_vars

\* The candidate counts around the least irv can be called with
FewCandidateCounts == {1, 2}

\* An irv over one candidate or two
InitFew ==
    /\ num_candidates \in FewCandidateCounts
    /\ voters \in Populations(RealOrdinalVoters(num_candidates), MaxBallots)
    /\ tie_breaker \in TieBreakers
    /\ Idle

SpecFew == InitFew /\ [][NextIrv]_vars

\* The voters a session draws from: HonestVoters of the Mean threshold over
\* three candidates with different first choices, some scaling and some not
SessionVoters ==
    {HonestVoterNew(<<0, 5, 10>>, FALSE, [type |-> "Mean"]),
     HonestVoterNew(<<10, 0, 5>>, TRUE, [type |-> "Mean"]),
     HonestVoterNew(<<5, 10, 10>>, TRUE, [type |-> "Mean"]),
     HonestVoterNew(<<5, 10, 10>>, FALSE, [type |-> "Mean"])}

\* A population on which one method after another is run
InitSession ==
    /\ num_candidates = 3
    /\ voters \in Populations(SessionVoters, MaxBallots)
    /\ tie_breaker \in TieBreakers
    /\ Idle

\* The caller takes the ranking returned and is about to call the next
\* method on the same population: the locals of the call are gone, the
\* voters stay as the call left them
Return ==
    /\ pc = "returned"
    /\ pc' = "idle"
    /\ method' = ""
    /\ range' = 0
    /\ ranking' = <<>>
    /\ votes' = <<0, 0>>
    /\ stack_ballots' = <<>>
    /\ eliminated' = {}
    /\ elimination_order' = <<>>
    /\ plurality' = <<>>
    /\ result' = <<>>
    /\ UNCHANGED <<voters, num_candidates, tie_breaker>>

\* Any sequence of method calls on one population
NextSession ==
    \/ Next
    \/ Return

SpecSession == InitSession /\ [][NextSession]_vars

-----------------------------------------------------------------------------
(* Calls of the Voter capabilities on one voter.  The voter called is       *)
(* voters[1]; method is the capability last called, range the range it was  *)
(* called with, result what it returned (a scalar as a one-element          *)
(* sequence) and pc whether it returned or panicked.                        *)

\* The utilities HonestVoters are built from, in tenths
VoterUtilityLevels == {0, 1, 3, 5, 10}

VoterCandidateCounts == {1, 2, 3}

\* The bounds a Preset carries or a Function returns, in tenths
ThresholdBounds == {0, 4, 11}

ThresholdBehaviors ==
    {[type |-> "Mean"]}
        \cup {[type |-> t, bound |-> b] :
                 t \in {"Preset", "Function"}, b \in ThresholdBounds}

\* The ranges RealCardinalVoters are built with
RealRanges == {1, 5}

\* The ranges cast_cardinal_ballot is called with
CallRanges == RatedRanges

\* HonestVoters of every threshold behaviour, scaling or not
HonestVoterPool(n) ==
    {HonestVoterNew(u, s, t) :
        u \in [1..n -> VoterUtilityLevels], s \in BOOLEAN,
        t \in ThresholdBehaviors}

\* The voter of tests::ordinal_equal_ballot_correct
ordinal_equal_voter ==
    HonestVoterNew(<<3, 5, 5, 1>>, FALSE, [type |-> "Mean"])

\* RealCardinalVoters of every ballot of ratings within the range
RealCardinalVoters(n, tiebreaker) ==
    {RealCardinalVoterNew(r, b, tiebreaker) :
        r \in RealRanges, b \in UNION {[1..n -> 0..k] : k \in RealRanges}}

VoterCalls ==
    {"cast_ordinal_ballot", "cast_ordinal_equal_ballot",
     "cast_cardinal_ballot", "cast_approval_ballot", "honest_preference",
     "utilities", "candidate_utility"}

\* One voter of any kind, just constructed
InitVoter ==
    /\ \/ /\ num_candidates \in VoterCandidateCounts
          /\ tie_breaker = "cmp"
          /\ voters \in {<<v>> : v \in HonestVoterPool(num_candidates)
                                     \cup RealOrdinalVoters(num_candidates)}
       \/ /\ num_candidates = 4
          /\ tie_breaker = "cmp"
          /\ voters = <<ordinal_equal_voter>>
       \/ /\ num_candidates \in VoterCandidateCounts
          /\ tie_breaker \in TieBreakers
          /\ voters \in {<<v>> :
                            v \in RealCardinalVoters(num_candidates,
                                                     tie_breaker)}
    /\ Idle

\* A caller holding the voter may call any capability, unless a call panicked
Callable ==
    /\ voters # <<>>
    /\ pc \in {"idle", "returned"}
    /\ method \in VoterCalls \cup {""}

call_vars == <<num_candidates, tie_breaker, ranking, votes, irv_vars>>

\* Voter::cast_ordinal_ballot
CastOrdinalBallot ==
    /\ Callable
    /\ method' = "cast_ordinal_ballot"
    /\ pc' = "returned"
    /\ result' = cast_ordinal_ballot(voters[1])
    /\ UNCHANGED <<voters, range, call_vars>>

\* Voter::cast_ordinal_equal_ballot
CastOrdinalEqualBallot ==
    /\ Callable
    /\ method' = "cast_ordinal_equal_ballot"
    /\ IF CanCastOrdinalEqual(voters[1])
       THEN pc' = "returned" /\ result' = cast_ordinal_equal_ballot(voters[1])
       ELSE pc' = "panicked" /\ result' = <<>>
    /\ UNCHANGED <<voters, range, call_vars>>

\* Voter::cast_cardinal_ballot(range)
CastCardinalBallot ==
    /\ Callable
    /\ method' = "cast_cardinal_ballot"
    /\ \E k \in CallRanges :
        /\ range' = k
        /\ IF CanCastCardinal(voters[1], k)
           THEN /\ pc' = "returned"
                /\ result' = cast_cardinal_ballot(voters[1], k)
                /\ voters' = IF voters[1].kind = "HonestVoter"
                             THEN <<calculate_cardinal_ballot(voters[1], k)>>
                             ELSE voters
           ELSE pc' = "panicked" /\ result' = <<>> /\ voters' = voters
    /\ UNCHANGED call_vars

\* Voter::cast_approval_ballot
CastApprovalBallot ==
    /\ Callable
    /\ method' = "cast_approval_ballot"
    /\ IF CanCastApproval(voters[1])
       THEN pc' = "returned" /\ result' = cast_approval_ballot(voters[1])
       ELSE pc' = "panicked" /\ result' = <<>>
    /\ UNCHANGED <<voters, range, call_vars>>

\* Voter::honest_preference(first, second)
HonestPreference ==
    /\ Callable
    /\ method' = "honest_preference"
    /\ \E first, second \in 0..(num_candidates - 1) :
        IF CanHonestPreference(voters[1])
        THEN /\ pc' = "returned"
             /\ result' = <<honest_preference(voters[1], first, second)>>
        ELSE pc' = "panicked" /\ result' = <<>>
    /\ UNCHANGED <<voters, range, call_vars>>

\* Voter::utilities
Utilities ==
    /\ Callable
    /\ method' = "utilities"
    /\ IF CanUtilities(voters[1])
       THEN pc' = "returned" /\ result' = voters[1].utilities
       ELSE pc' = "panicked" /\ result' = <<>>
    /\ UNCHANGED <<voters, range, call_vars>>

\* Voter::candidate_utility(id)
CandidateUtility ==
    /\ Callable
    /\ method' = "candidate_utility"
    /\ \E id \in 0..(num_candidates - 1) :
        IF CanUtilities(voters[1])
        THEN pc' = "returned" /\ result' = <<candidate_utility(voters[1], id)>>
        ELSE pc' = "panicked" /\ result' = <<>>
    /\ UNCHANGED <<voters, range, call_vars>>

\* The capabilities that compute nothing when called
NextVoter ==
    \/ CastOrdinalBallot
    \/ CastOrdinalEqualBallot
    \/ CastApprovalBallot
    \/ HonestPreference
    \/ Utilities
    \/ CandidateUtility

SpecVoter == InitVoter /\ [][NextVoter]_vars

\* One HonestVoter of the Mean threshold
InitCardinal ==
    /\ InitVoter
    /\ voters[1].kind = "HonestVoter"
    /\ voters[1].threshold_behavior.type = "Mean"

\* The ballot calls, cast_cardinal_ballot and its cache included
NextCardinal ==
    \/ CastOrdinalBallot
    \/ CastOrdinalEqualBallot
    \/ CastCardinalBallot
    \/ CastApprovalBallot

SpecCardinal == InitCardinal /\ [][NextCardinal]_vars

\* RealOrdinalVoters holding every complete ranking of the candidates
CompleteOrdinalVoters(n) ==
    {v \in RealOrdinalVoters(n) : Len(v.ordinal_ballot) = n}

\* An election over a population of RealOrdinalVoters with complete ballots
\* and a tie-breaker that is a total order
InitRealOrdinal ==
    /\ num_candidates \in CandidateCounts
    /\ voters \in Populations(CompleteOrdinalVoters(num_candidates),
                               MaxBallots)
    /\ tie_breaker \in {"cmp", "rev"}
    /\ Idle

\* Every capability of the first voter and every method
NextRealOrdinal ==
    \/ CastCardinalBallot
    \/ NextVoter
    \/ Next

SpecRealOrdinal == InitRealOrdinal /\ [][NextRealOrdinal]_vars

\* The keys the candidate sort is called with: those of
\* tests::test_sort_candidates_by_vec
SortKeys == {10, 20, 50}

\* The orders the candidates 0..n-1 can be in when the sort is called
CandidateOrders(n) ==
    {c \in [1..n -> 0..(n - 1)] : \A i, j \in 1..n : i # j => c[i] # c[j]}

\* A caller about to call sort_candidates_by_vec: ranking is the Vec of
\* candidates it passes, plurality the key of each candidate, tie_breaker a
\* total order
InitSort ==
    /\ num_candidates \in CandidateCounts
    /\ tie_breaker \in {"cmp", "rev"}
    /\ voters = <<>>
    /\ pc = "idle"
    /\ method = "sort_candidates_by_vec"
    /\ range = 0
    /\ ranking \in CandidateOrders(num_candidates)
    /\ plurality \in [1..num_candidates -> SortKeys]
    /\ votes = <<0, 0>>
    /\ stack_ballots = <<>>
    /\ eliminated = {}
    /\ elimination_order = <<>>
    /\ result = <<>>

\* sort_candidates_by_vec(&mut candidates, &v, tie_breaker): result is the
\* Vec as the call leaves it
SortCandidatesByVec ==
    /\ pc = "idle"
    /\ method = "sort_candidates_by_vec"
    /\ pc' = "returned"
    /\ result' = sort_candidates_by_vec_in_place(ranking, plurality,
                                                 tie_breaker)
    /\ UNCHANGED <<voters, num_candidates, tie_breaker, method, range,
                   ranking, votes, irv_vars>>

NextSort == SortCandidatesByVec

SpecSort == InitSort /\ [][NextSort]_vars

\* One RealCardinalVoter
InitRealCardinal ==
    /\ InitVoter
    /\ voters[1].kind = "RealCardinalVoter"

\* Every capability
NextRealCardinal ==
    \/ CastCardinalBallot
    \/ NextVoter

SpecRealCardinal == InitRealCardinal /\ [][NextRealCardinal]_vars

-----------------------------------------------------------------------------
(* Properties of the ordinal methods *)

\* The strict ordinal ballot of voter i
Ballot(i) == cast_ordinal_ballot(voters[i])

Candidates == 0..(num_candidates - 1)

\* A full ranking: every candidate exactly once
IsRanking(r) == Len(r) = num_candidates /\ Range(r) = Candidates

\* Number of voters whose ballot has candidate c at position 0
FirstPreferences(c) ==
    Cardinality({i \in 1..Len(voters) : Ballot(i) # <<>> /\ Ballot(i)[1] = c})

\* r lists the candidates by descending first-preference tally, equal
\* tallies in the order of the tie-breaker on the candidate indices
ByFirstPreferences(r) ==
    /\ IsRanking(r)
    /\ \A i, j \in 1..num_candidates :
          i < j =>
            /\ FirstPreferences(r[i]) >= FirstPreferences(r[j])
            /\ FirstPreferences(r[i]) = FirstPreferences(r[j])
                 => TieBreak(tie_breaker, r[j], r[i]) # "Greater"

\* C2: plurality returns the candidates by descending first-preference tally
\* (the number of voters whose ordinal ballot has the candidate at position
\* 0), and candidates with equal tallies in the order the tie-breaker gives
\* their indices.
C2_PluralityByTally ==
    (pc = "returned" /\ method = "plurality") => ByFirstPreferences(result)

\* C2 witness: plurality has returned a ranking with a strict step and a tie
\* that the index order had to break.
C2_Witness ==
    /\ pc = "returned" /\ method = "plurality"
    /\ num_candidates = 3 /\ tie_breaker = "cmp"
    /\ FirstPreferences(result[1]) > FirstPreferences(result[2])
    /\ FirstPreferences(result[2]) = FirstPreferences(result[3])

\* Position of candidate c on ballot b, Len(b) + 1 when b does not list c
Position(b, c) ==
    IF c \in Range(b) THEN CHOOSE j \in DOMAIN b :
                               b[j] = c /\ \A k \in 1..(j - 1) : b[k] # c
    ELSE Len(b) + 1

\* Number of ballots on which c appears and d does not appear before it
Credits(c, d) ==
    Cardinality({i \in 1..Len(voters) :
                    Position(Ballot(i), c) < Position(Ballot(i), d)})

\* C8: contingent_vote ranks the candidates by first-preference tally, credits
\* each ballot to whichever of the top two it lists first (to neither when it
\* lists neither), and returns that ranking with positions 0 and 1 swapped
\* exactly when the second has strictly more credits; on equal credits the
\* tie-breaker on the two candidate indices decides the order of the two.
C8_ContingentVote ==
    (/\ method = "contingent_vote"
     /\ pc \in {"returned", "panicked"}
     /\ \A i \in 1..Len(voters) : Ballot(i) # <<>>)
    => LET a == ranking[1]
           b == ranking[2]
           ord == TieBreak(tie_breaker, a, b)
       IN  /\ ByFirstPreferences(ranking)
           /\ votes = <<Credits(a, b), Credits(b, a)>>
           /\ Credits(b, a) > Credits(a, b)
                => pc = "returned" /\ result = swap(ranking, 0, 1)
           /\ Credits(a, b) > Credits(b, a)
                => pc = "returned" /\ result = ranking
           /\ Credits(a, b) = Credits(b, a)
                => /\ ord = "Less"
                        => pc = "returned" /\ result = swap(ranking, 0, 1)
                   /\ ord = "Greater"
                        => pc = "returned" /\ result = ranking
                   /\ ord = "Equal" => pc = "panicked"

\* C8 witness: contingent_vote has swapped the top two because the second by
\* tally is listed before the first on strictly more ballots.
C8_Witness ==
    /\ method = "contingent_vote" /\ pc = "returned"
    /\ num_candidates = 3
    /\ Credits(ranking[2], ranking[1]) > Credits(ranking[1], ranking[2])
    /\ result[1] = ranking[2]

-----------------------------------------------------------------------------
(* Properties of irv *)

\* The tally of candidate c among the candidates not in elim
Tally(c) == plurality[c + 1]

\* C4: the candidate irv eliminates in a round has the minimal tally among
\* the candidates not yet eliminated, and among several with that tally it is
\* the one the tie-breaker, applied to the candidate indices, puts first.
C4_EliminatesByTieBreaker ==
    [][(pc = "irv_eliminate" /\ tie_breaker \in {"cmp", "rev"})
        => \A loser \in eliminated' \ eliminated :
              /\ loser \in Candidates
              /\ \A c \in Candidates \ eliminated :
                    /\ Tally(loser) <= Tally(c)
                    /\ (c # loser /\ Tally(c) = Tally(loser))
                         => TieBreak(tie_breaker, loser, c) = "Less"]_vars

\* C5: for n >= 2 candidates irv ends after exactly n - 1 eliminations and
\* returns the never-eliminated candidate followed by the eliminated ones,
\* last eliminated first.
C5_IrvRanking ==
    method = "irv" =>
        /\ pc # "panicked"
        /\ Len(elimination_order) <= num_candidates - 1
        /\ pc \in {"irv_tabulate", "irv_eliminate"}
             => Len(elimination_order) < num_candidates - 1
        /\ pc = "returned" =>
             /\ Len(elimination_order) = num_candidates - 1
             /\ Len(result) = num_candidates
             /\ result[1] \in Candidates \ Range(elimination_order)
             /\ \A k \in 1..(num_candidates - 1) :
                   result[k + 1] = elimination_order[num_candidates - k]

\* C5 witness: irv has returned for three candidates and three voters.
C5_Witness ==
    /\ method = "irv" /\ pc = "returned"
    /\ num_candidates = 3 /\ Len(voters) = 3
    /\ Len(elimination_order) = 2

\* Whether ballot b lists nobody outside elim
Exhausted(b, elim) == Range(b) \subseteq elim

\* The first candidate of b outside elim
FirstActive(b, elim) ==
    b[CHOOSE j \in DOMAIN b :
          b[j] \notin elim /\ \A k \in 1..(j - 1) : b[k] \in elim]

\* C6: in every round of irv a ballot all of whose candidates are eliminated
\* (an empty ballot included) votes for nobody, every other ballot votes for
\* its first candidate not eliminated, and such ballots neither make irv fail
\* nor end it before n - 1 candidates are eliminated.
C6_ExhaustedBallots ==
    method = "irv" =>
        /\ pc # "panicked"
        /\ pc = "irv_eliminate" =>
             \A c \in Candidates :
                 Tally(c) = Cardinality(
                     {i \in 1..Len(voters) :
                         /\ ~Exhausted(Ballot(i), eliminated)
                         /\ FirstActive(Ballot(i), eliminated) = c})
        /\ pc = "returned" => Cardinality(eliminated) = num_candidates - 1

\* C6 witness: irv over three candidates has returned although a non-empty
\* ballot was exhausted by the first elimination, so that the second round
\* was tabulated without it.
C6_Witness ==
    /\ method = "irv" /\ pc = "returned"
    /\ num_candidates = 3
    /\ \E i \in 1..Len(voters) :
          /\ Ballot(i) # <<>>
          /\ Exhausted(Ballot(i), {elimination_order[1]})

\* ElectionMethods::fptp_runoff as one function of its arguments
FptpRunoffOf(vs, n, tb) ==
    LET fptp_ranking == plurality_driver(vs, n, tb)
        winner == honest_runoff_driver(vs, tb, fptp_ranking[1],
                                       fptp_ranking[2])
    IN  IF winner = fptp_ranking[2] THEN swap(fptp_ranking, 0, 1)
        ELSE fptp_ranking

\* C7: on the irv_differs population (blocks of 24, 24, 20, 20 and 12 first
\* preferences for the five candidates) with the index-order tie-breaker, the
\* winner irv returns is not the winner fptp_runoff returns.
C7_IrvDiffersFromRunoff ==
    (voters = irv_differs /\ tie_breaker = "cmp") =>
        /\ (method = "irv" /\ pc = "irv_eliminate" /\ eliminated = {})
             => plurality = <<24, 24, 20, 20, 12>>
        /\ (method = "irv" /\ pc = "returned")
             => result[1] # FptpRunoffOf(voters, num_candidates,
                                         tie_breaker)[1]
        /\ (method = "fptp_runoff" /\ pc = "returned")
             => result = FptpRunoffOf(voters, num_candidates, tie_breaker)

\* C7 witness: irv has returned on irv_differs under the index order, with a
\* winner that is neither of the two plurality leaders.
C7_Witness ==
    /\ voters = irv_differs /\ tie_breaker = "cmp"
    /\ method = "irv" /\ pc = "returned"
    /\ result[1] = 2
    /\ FptpRunoffOf(voters, num_candidates, tie_breaker)[1] = 0

-----------------------------------------------------------------------------
(* Properties of the runoff, STAR and tie-breaking decisions *)

\* The ranking the base driver of the runoff method in progress returns
BaseRanking ==
    CASE method = "fptp_runoff" ->
             plurality_driver(voters, num_candidates, tie_breaker)
      [] method = "approval_runoff" ->
             approval_driver(voters, num_candidates, tie_breaker)
      [] method = "score_runoff" ->
             score_driver(voters, num_candidates, tie_breaker, range)

\* Number of voters whose utility for a is strictly above that for b
PreferCount(a, b) ==
    Cardinality({i \in 1..Len(voters) :
                    voters[i].utilities[a + 1] > voters[i].utilities[b + 1]})

\* C3: fptp_runoff, approval_runoff and score_k_runoff return the ranking of
\* their base driver with at most positions 0 and 1 exchanged: positions 2 and
\* beyond are the base ranking's, the top two are the same two candidates, and
\* the two are exchanged exactly when the base ranking's second candidate wins
\* the head-to-head driver against the first.
C3_RunoffSwapsTopTwoOnly ==
    (pc = "returned"
     /\ method \in {"fptp_runoff", "approval_runoff", "score_runoff"})
    => LET base == BaseRanking
           a == base[1]
           b == base[2]
       IN  /\ IsRanking(base)
           /\ Len(result) = num_candidates
           /\ \A k \in 3..num_candidates : result[k] = base[k]
           /\ {result[1], result[2]} = {a, b}
           /\ result[1] = b
                <=> honest_runoff_driver(voters, tie_breaker, a, b) = b
           /\ PreferCount(b, a) > PreferCount(a, b) => result[1] = b
           /\ PreferCount(a, b) > PreferCount(b, a) => result[1] = a

\* C3 witness: a runoff over three candidates has exchanged the top two
\* because more voters prefer the second of the base ranking.
C3_Witness ==
    /\ pc = "returned"
    /\ method \in {"fptp_runoff", "approval_runoff", "score_runoff"}
    /\ num_candidates = 3
    /\ result[1] = BaseRanking[2]
    /\ result[3] = BaseRanking[3]
    /\ PreferCount(BaseRanking[2], BaseRanking[1])
         > PreferCount(BaseRanking[1], BaseRanking[2])

\* C10: when contingent_vote finds the two finalists' credits equal, and when
\* star_k finds the two finalists' points equal, a tie-breaker answering Equal
\* makes the call panic, and one answering Less or Greater makes it return a
\* ranking.
C10_DecisiveTieBreaker ==
    [][/\ (pc = "cv_decide" /\ votes[1] = votes[2])
            => IF TieBreak(tie_breaker, ranking[1], ranking[2]) = "Equal"
               THEN pc' = "panicked"
               ELSE /\ pc' = "returned"
                    /\ Len(result') = num_candidates
                    /\ Range(result') = Candidates
       /\ (pc = "star_decide" /\ votes[1] = votes[2])
            => IF TieBreak(tie_breaker, votes[1], votes[2]) = "Equal"
               THEN pc' = "panicked"
               ELSE /\ pc' = "returned"
                    /\ Len(result') = num_candidates
                    /\ Range(result') = Candidates]_vars

\* C10 witness: contingent_vote reached its final comparison with equal
\* credits from two voters and panicked on a tie-breaker answering Equal.
C10_Witness ==
    /\ method = "contingent_vote" /\ pc = "panicked"
    /\ ranking # <<>>
    /\ Len(voters) = 2
    /\ votes[1] = votes[2] /\ votes[1] > 0
    /\ TieBreak(tie_breaker, ranking[1], ranking[2]) = "Equal"

\* C1: every method, called with at least two candidates, a non-empty
\* population of voters that support the ballots it asks for, and a
\* tie-breaker that is a total order on candidate indices, returns a
\* permutation of the candidates.
C1_ReturnsPermutation ==
    (/\ method # ""
     /\ num_candidates >= 2
     /\ Len(voters) >= 1
     /\ \A i \in 1..Len(voters) : voters[i].kind = "HonestVoter"
     /\ tie_breaker \in {"cmp", "rev"})
    => /\ pc # "panicked"
       /\ pc = "returned" => IsRanking(result)

\* Number of cardinal ballots at the range in use that rate a above b
RatedHigher(a, b) ==
    Cardinality({i \in 1..Len(voters) :
                    cast_cardinal_ballot(voters[i], range)[a + 1]
                      > cast_cardinal_ballot(voters[i], range)[b + 1]})

\* C9: star_k returns the score ranking with, at position 0, whichever of its
\* top two is rated strictly higher on more ballots (a ballot rating the two
\* equally counts for neither), the two being exchanged if that is the second;
\* positions 2 and beyond are unchanged.
C9_StarRunoff ==
    (method = "star" /\ pc = "returned")
    => LET base == score_driver(voters, num_candidates, tie_breaker, range)
           a == base[1]
           b == base[2]
       IN  /\ \A k \in 3..num_candidates : result[k] = base[k]
           /\ RatedHigher(a, b) > RatedHigher(b, a) => result = base
           /\ RatedHigher(b, a) > RatedHigher(a, b)
                => result = swap(base, 0, 1)

-----------------------------------------------------------------------------
(* Properties of the voters *)

\* The voter whose capabilities are called
Voter == voters[1]

\* Whether no utility of voter v reaches the threshold of its policy: the
\* f64 mean of its utilities, or the bound of its Preset or Function
NoneReaches(v) ==
    IF v.threshold_behavior.type = "Mean"
    THEN LET mean == F64Div(Sum(v.utilities), F64OfInt(Len(v.utilities)))
         IN  \A i \in 1..Len(v.utilities) :
                 F64Cmp(F64OfTenths(v.utilities[i]), mean) = "Less"
    ELSE \A i \in 1..Len(v.utilities) :
             v.utilities[i] < v.threshold_behavior.bound

\* C11: for every HonestVoter with at least one candidate and every threshold
\* policy (Mean, Preset, Function), cast_approval_ballot returns a non-empty
\* ballot, and when no utility reaches the threshold the ballot is a single
\* candidate of the highest utility.
C11_ApprovalNeverEmpty ==
    (/\ method = "cast_approval_ballot"
     /\ pc = "returned"
     /\ Voter.kind = "HonestVoter")
        => /\ result # <<>>
           /\ NoneReaches(Voter)
                => /\ Len(result) = 1
                   /\ Voter.utilities[result[1] + 1] = MaxOf(Voter.utilities)

\* C12: every approval ballot that cast_approval_ballot returns, for any kind
\* of voter, is non-empty; in particular that of a RealCardinalVoter built
\* with range 1 from a ballot of 0/1 ratings.
C12_ApprovalBallotNonEmpty ==
    (method = "cast_approval_ballot" /\ pc = "returned")
        => /\ result # <<>>
           /\ (/\ Voter.kind = "RealCardinalVoter"
               /\ Voter.range = 1
               /\ Range(Voter.cardinal_ballot) \subseteq {0, 1})
                => Len(result) >= 1

\* What a ballot call on voter v may not change: everything but the cache
\* of cardinal ballots
Stored(v) == [f \in DOMAIN v \ {"cached_cardinal_ballots"} |-> v[f]]

\* C13: over any sequence of ballot calls on a HonestVoter, a call of
\* cast_cardinal_ballot returns the ballot cached for its range, which is the
\* ballot every earlier call with that range returned; a call never changes
\* or drops the ballot cached for another range; and no call changes the
\* utilities, the ordinal ballot, the ordinal-equal ballot or the approval
\* ballot of the voter.
C13_CardinalCallsRepeatable ==
    [][/\ Stored(Voter') = Stored(Voter)
       /\ \A k \in DOMAIN Voter.cached_cardinal_ballots :
              /\ k \in DOMAIN Voter'.cached_cardinal_ballots
              /\ Voter'.cached_cardinal_ballots[k]
                     = Voter.cached_cardinal_ballots[k]
       /\ method' = "cast_cardinal_ballot"
            => /\ pc' = "returned"
               /\ result' = Voter'.cached_cardinal_ballots[range']
               /\ DOMAIN Voter'.cached_cardinal_ballots
                      = DOMAIN Voter.cached_cardinal_ballots \cup {range'}]_vars

\* A cardinal ballot was returned at range 10 by a voter that by then holds
\* the ballots of the ranges 5, 10 and 100
C13_Witness ==
    /\ method = "cast_cardinal_ballot"
    /\ pc = "returned"
    /\ Voter.utilities = <<3, 5, 1>>
    /\ Voter.scales
    /\ range = 10
    /\ DOMAIN Voter.cached_cardinal_ballots = {5, 10, 100}
    /\ result = <<5, 10, 0>>

\* The f64 k/2, for a natural k
F64OfHalves(k) == F64Canon(BOfInt(k), -1)

\* The utility voter v rates candidate i by: the raw utility, or with scales
\* the utility rescaled linearly so that the minimum is 0 and the maximum 1
RatedUtility(v, i) ==
    LET u == F64OfTenths(v.utilities[i])
        max == F64OfTenths(MaxOf(v.utilities))
        min == F64OfTenths(MinOf(v.utilities))
    IN  IF v.scales /\ max # min
        THEN F64Div(F64Sub(u, min), F64Sub(max, min))
        ELSE u

\* Whether the integer k is x rounded to the nearest integer, halves upwards
IsRound(k, x) ==
    /\ F64Cmp(x, F64OfHalves(2 * k + 1)) = "Less"
    /\ k > 0 => F64Cmp(x, F64OfHalves(2 * k - 1)) # "Less"

OrdinalMethods == {"plurality", "contingent_vote", "irv"}

\* The methods that ask for an approval ballot, a cardinal ballot or an
\* honest preference
OtherMethods ==
    {"fptp_runoff", "approval", "approval_runoff", "score", "score_runoff",
     "star"}

\* What C15 says of the capabilities of a RealOrdinalVoter and of the
\* methods that only need its ordinal ballot
RealOrdinalCapabilities ==
    /\ (method = "cast_ordinal_ballot" /\ pc # "idle")
          => /\ pc = "returned"
             /\ Voter = RealOrdinalVoterNew(result)
    /\ (method \in VoterCalls \ {"cast_ordinal_ballot"} /\ pc # "idle")
          => pc = "panicked"
    /\ method \in OrdinalMethods => pc # "panicked"
    /\ (method \in OrdinalMethods /\ pc = "returned") => IsRanking(result)

C16_RealCardinalVoterCalls ==
    [][Voter.kind = "RealCardinalVoter"
         => /\ method' = "cast_cardinal_ballot"
                 => IF range' = Voter.range
                    THEN /\ pc' = "returned"
                         /\ result' = Voter.cardinal_ballot
                         /\ Voter' = RealCardinalVoterNew(range', result',
                                                          tie_breaker)
                    ELSE pc' = "panicked"
            /\ method' = "cast_approval_ballot"
                 => IF Voter.range = 1 THEN pc' = "returned"
                    ELSE pc' = "panicked"
            /\ method' \in {"honest_preference", "utilities",
                            "candidate_utility"}
                 => pc' = "panicked"
            /\ pc' = "panicked" => Voter' = Voter]_vars

\* A RealCardinalVoter built with range 5 was asked for a ballot at range 10
C16_Witness ==
    /\ method = "cast_cardinal_ballot"
    /\ pc = "panicked"
    /\ Voter.kind = "RealCardinalVoter"
    /\ Voter.range = 5
    /\ range = 10
    /\ Voter.cardinal_ballot = <<5, 0, 3>>

\* The value voter v ranks candidate c by: its utility, or the rating of its
\* pre-cast cardinal ballot
ValueOf(v, c) ==
    IF v.kind = "HonestVoter" THEN v.utilities[c + 1]
    ELSE v.cardinal_ballot[c + 1]

\* The places <<g, k>> of the ordinal-equal ballot groups: group g, rank k
Places(groups) ==
    {p \in (1..Len(groups)) \X (1..num_candidates) : p[2] <= Len(groups[p[1]])}

\* C17: cast_ordinal_equal_ballot of a HonestVoter or a RealCardinalVoter
\* returns groups that partition the candidates: every candidate is in
\* exactly one group, two candidates are in the same group exactly when their
\* utilities (ratings) are equal, and the groups are in strictly descending
\* order of their common value; utilities [0.3, 0.5, 0.5, 0.1] give
\* [[1, 2], [0], [3]].
C17_OrdinalEqualGroups ==
    (method = "cast_ordinal_equal_ballot" /\ pc = "returned")
        => /\ \A g \in 1..Len(result) : result[g] # <<>>
           /\ \A c \in 0..(num_candidates - 1) :
                  Cardinality({p \in Places(result) :
                                  result[p[1]][p[2]] = c}) = 1
           /\ \A p, q \in Places(result) :
                  /\ (p[1] = q[1])
                        <=> ValueOf(Voter, result[p[1]][p[2]])
                                = ValueOf(Voter, result[q[1]][q[2]])
                  /\ p[1] < q[1]
                        => ValueOf(Voter, result[p[1]][p[2]])
                               > ValueOf(Voter, result[q[1]][q[2]])
           /\ (Voter.kind = "HonestVoter" /\ Voter.utilities = <<3, 5, 5, 1>>)
                 => result = <<<<1, 2>>, <<0>>, <<3>>>>

\* The voter of tests::ordinal_equal_ballot_correct cast its ordinal-equal
\* ballot
C17_Witness ==
    /\ method = "cast_ordinal_equal_ballot"
    /\ pc = "returned"
    /\ Voter.kind = "HonestVoter"
    /\ Voter.utilities = <<3, 5, 5, 1>>
    /\ result = <<<<1, 2>>, <<0>>, <<3>>>>

-----------------------------------------------------------------------------
(* Properties of the head-to-head driver and of the candidate sort *)

\* C19: the honest head-to-head driver for candidates (a, b) counts one vote
\* for a from each voter whose honest_preference(a, b) is Greater, one for b
\* from each whose preference is Less and none from the indifferent; it
\* returns the candidate with the strictly larger count and, when the counts
\* are equal, the candidate the tie-breaker chooses between the candidate
\* indices a and b: a when it answers Greater for (a, b), b when it answers
\* Less.
C19_HeadToHeadTieByCandidates ==
    (pc = "returned"
     /\ method \in {"fptp_runoff", "approval_runoff", "score_runoff"})
    => LET a == ranking[1]
           b == ranking[2]
           winner == honest_runoff_driver(voters, tie_breaker, a, b)
       IN  /\ winner \in {a, b}
           /\ result[1] = winner
           /\ PreferCount(a, b) > PreferCount(b, a) => winner = a
           /\ PreferCount(b, a) > PreferCount(a, b) => winner = b
           /\ PreferCount(a, b) = PreferCount(b, a)
                => /\ TieBreak(tie_breaker, a, b) = "Greater" => winner = a
                   /\ TieBreak(tie_breaker, a, b) = "Less" => winner = b

\* C20: sort_candidates_by_vec, given the candidates 0..n-1 in any order, a
\* key per candidate and a tie-breaker that is a strict total order on
\* distinct indices, leaves a permutation of the same candidates with
\* non-increasing keys in which two candidates of equal key are in the order
\* the tie-breaker alone fixes, whatever their initial positions: the result
\* is the one the drivers of plurality, score, approval, contingent vote and
\* STAR get from the candidates in index order; keys [20, 50, 10] under
\* usize::cmp give [1, 0, 2].
C20_SortByKeyThenTieBreaker ==
    (method = "sort_candidates_by_vec" /\ pc = "returned")
        => /\ Len(result) = Len(ranking)
           /\ Range(result) = Range(ranking)
           /\ \A i, j \in 1..Len(result) :
                  i < j
                    => LET a == result[i]
                           b == result[j]
                       IN  \/ plurality[a + 1] > plurality[b + 1]
                           \/ /\ plurality[a + 1] = plurality[b + 1]
                              /\ TieBreak(tie_breaker, b, a) = "Less"
           /\ result = sort_candidates_by_vec(plurality, tie_breaker)
           /\ (plurality = <<20, 50, 10>> /\ tie_breaker = "cmp")
                 => result = <<1, 0, 2>>

\* The sort was called on three candidates of one key with the candidates in
\* neither index order nor its reverse
C20_Witness ==
    /\ method = "sort_candidates_by_vec"
    /\ pc = "returned"
    /\ plurality = <<20, 20, 20>>
    /\ ranking = <<1, 0, 2>>
    /\ tie_breaker = "cmp"
    /\ result = <<2, 1, 0>>

-----------------------------------------------------------------------------
(* Properties of the score methods, of the population and of irv rounds *)

\* The total of candidate c: the sum over the voters of the rating their
\* cardinal ballot at the range of the call gives c
RECURSIVE TotalUpTo(_, _)
TotalUpTo(c, i) ==
    IF i = 0 THEN 0
    ELSE TotalUpTo(c, i - 1) + cast_cardinal_ballot(voters[i], range)[c + 1]

Total(c) == TotalUpTo(c, Len(voters))

\* C21: score_k ranks the candidates by descending total, the total of a
\* candidate being the sum over all voters of the rating the voter's cardinal
\* ballot at range k gives it; every total is at most k times the number of
\* voters, and equal totals are in the order the tie-breaker gives the
\* candidate indices.
C21_ScoreByTotal ==
    (pc = "returned" /\ method = "score")
        => /\ IsRanking(result)
           /\ \A c \in Candidates : Total(c) <= range * Len(voters)
           /\ \A i, j \in 1..num_candidates :
                  i < j =>
                    /\ Total(result[i]) >= Total(result[j])
                    /\ Total(result[i]) = Total(result[j])
                         => TieBreak(tie_breaker, result[j], result[i])
                                # "Greater"

\* score_10 has returned a ranking of three candidates with a strict step
\* and a tie of two totals that the index order had to break
C21_Witness ==
    /\ pc = "returned"
    /\ method = "score"
    /\ range = 10
    /\ num_candidates = 3
    /\ tie_breaker = "cmp"
    /\ Len(voters) = 2
    /\ Total(0) = 15
    /\ Total(1) = 15
    /\ Total(2) = 5
    /\ result = <<1, 0, 2>>

\* C22: running any voting method leaves the population of voters as it found
\* it except for the cardinal ballots HonestVoters cache: no step of a method
\* adds, removes or reorders voters or changes a voter's utilities, ordinal
\* ballot, ordinal-equal ballot or approval ballot; in particular irv consumes
\* copies of the ordinal ballots, every voter's ordinal ballot having the same
\* length and order after irv as before.
C22_PopulationUnchanged ==
    [][/\ Len(voters') = Len(voters)
       /\ \A i \in 1..Len(voters) :
              /\ Stored(voters'[i]) = Stored(voters[i])
              /\ cast_ordinal_ballot(voters'[i]) = cast_ordinal_ballot(voters[i])
              /\ voters[i].kind = "HonestVoter"
                   => \A k \in DOMAIN voters[i].cached_cardinal_ballots :
                          /\ k \in DOMAIN voters'[i].cached_cardinal_ballots
                          /\ voters'[i].cached_cardinal_ballots[k]
                                 = voters[i].cached_cardinal_ballots[k]]_vars


\* A session in which irv has returned after score ran at every range: the
\* rounds consumed a ballot copy while the voter holds what it was built with
C22_Witness ==
    /\ pc = "returned"
    /\ method = "irv"
    /\ Len(voters) = 3
    /\ \E i \in 1..Len(voters) :
           /\ Len(stack_ballots[i]) < Len(cast_ordinal_ballot(voters[i]))
           /\ DOMAIN voters[i].cached_cardinal_ballots = {5, 10, 100}
           /\ Stored(voters[i])
                  = Stored(HonestVoterNew(voters[i].utilities, voters[i].scales,
                                          voters[i].threshold_behavior))


\* A tie-breaker that answers Equal whenever its two arguments are equal
EqualOnEqual(tb) == \A x \in 0..100 : TieBreak(tb, x, x) = "Equal"

\* C23: star_k called with a tie-breaker that answers Equal on equal arguments
\* (usize::cmp among them) and a population of at least one voter never
\* returns a ranking: it panics on the first ballot, with both counters still
\* at 0.
C23_StarFailsOnFirstBallot ==
    (method = "star" /\ Len(voters) >= 1 /\ EqualOnEqual(tie_breaker))
        => /\ pc = "panicked"
           /\ result = <<>>
           /\ votes = <<0, 0>>
           /\ StarVotes(<<cast_cardinal_ballot(voters[1], range)>>, 1, 0, 0,
                        tie_breaker).panic

C23_Witness ==
    /\ method = "star"
    /\ pc = "panicked"
    /\ tie_breaker = "cmp"
    /\ range = 10
    /\ Len(voters) = 2
    /\ num_candidates = 3
    /\ cast_cardinal_ballot(voters[1], 10) = <<0, 5, 10>>
    /\ votes = <<0, 0>>


\* C24: throughout irv, after r completed rounds the eliminated set has
\* exactly r members and is the set of the entries of the elimination log,
\* the log has no duplicates, and the round that ends eliminates exactly one
\* candidate, one that was not eliminated before it.
C24_EliminationLog ==
    [][method' = "irv"
         => /\ Cardinality(eliminated') = Len(elimination_order')
            /\ eliminated' = Range(elimination_order')
            /\ \A i, j \in 1..Len(elimination_order') :
                   i # j => elimination_order'[i] # elimination_order'[j]
            /\ (pc = "irv_eliminate" /\ pc' # "panicked")
                 => LET r == Len(elimination_order)
                    IN  /\ Len(elimination_order') = r + 1
                        /\ SubSeq(elimination_order', 1, r) = elimination_order
                        /\ elimination_order'[r + 1] \notin eliminated
                        /\ eliminated' =
                               eliminated \cup {elimination_order'[r + 1]}]_vars

C24_Witness ==
    /\ method = "irv"
    /\ pc = "returned"
    /\ num_candidates = 3
    /\ Len(voters) = 3
    /\ elimination_order = <<2, 0>>
    /\ eliminated = {0, 2}
    /\ result = <<1, 0, 2>>


RECURSIVE TallySum(_, _)
TallySum(tally, i) ==
    IF i = 0 THEN 0 ELSE TallySum(tally, i - 1) + tally[i]

\* The ballots of the round that still name a candidate
NonExhausted == {i \in 1..Len(stack_ballots) : stack_ballots[i] # <<>>}

\* C25: in every irv round, once the ballots are advanced and tallied, the
\* front of each ballot that is not exhausted is a candidate not eliminated,
\* the tally of every eliminated candidate is 0, each tally counts the ballots
\* whose front is that candidate (nothing of the previous round carried over),
\* and the tallies sum to the number of ballots not exhausted, at most the
\* number of voters.
C25_RoundTallies ==
    (method = "irv" /\ pc = "irv_eliminate")
        => /\ \A i \in NonExhausted : Head(stack_ballots[i]) \notin eliminated
           /\ \A c \in eliminated : plurality[c + 1] = 0
           /\ \A c \in Candidates :
                  plurality[c + 1]
                      = Cardinality({i \in NonExhausted :
                                        Head(stack_ballots[i]) = c})
           /\ TallySum(plurality, num_candidates) = Cardinality(NonExhausted)
           /\ Cardinality(NonExhausted) <= Len(voters)

\* The second round of an irv over three ballots: the ballot that named only
\* the eliminated candidate has been advanced and is exhausted
C25_Witness ==
    /\ method = "irv"
    /\ pc = "irv_eliminate"
    /\ num_candidates = 3
    /\ Len(voters) = 3
    /\ eliminated = {2}
    /\ Cardinality(NonExhausted) = 2
    /\ plurality = <<1, 1, 0>>
    /\ \E i \in 1..Len(voters) :
           stack_ballots[i] = <<>> /\ cast_ordinal_ballot(voters[i]) = <<2>>


\* The voters whose strict ordinal ballot has candidate c at position 0
Heading(c) ==
    {i \in 1..Len(voters) :
        /\ cast_ordinal_ballot(voters[i]) # <<>>
        /\ cast_ordinal_ballot(voters[i])[1] = c}

\* Candidate c heads the ordinal ballot of more than half of the voters
HeadsMajority(c) == 2 * Cardinality(Heading(c)) > Len(voters)

Preferring(c) ==
    {i \in 1..Len(voters) :
        /\ voters[i].kind = "HonestVoter"
        /\ \A d \in Candidates \ {c} :
               voters[i].utilities[c + 1] > voters[i].utilities[d + 1]}

DistinctUtilities ==
    \A i \in 1..Len(voters) :
        /\ voters[i].kind = "HonestVoter"
        /\ \A c, d \in Candidates :
               c # d => voters[i].utilities[c + 1] # voters[i].utilities[d + 1]

\* The two finalists split the head-to-head vote evenly
EvenSplit ==
    LET vote_totals == RunoffTotals(voters, 1, Len(voters), ranking[1],
                                    ranking[2], <<0, 0>>)
    IN  vote_totals[1] = vote_totals[2]

\* C27: on HonestVoters whose utilities are pairwise distinct within each
\* voter, with a tie-breaker that is a total order on the candidate indices,
\* the ranking fptp_runoff returns is the ranking contingent_vote returns on
\* the same population, an even split between the finalists included.
C27_RunoffIsContingentVote ==
    (pc = "returned" /\ method = "fptp_runoff" /\ DistinctUtilities
     /\ tie_breaker \in {"cmp", "rev"})
        => result = contingent_vote(voters, num_candidates, tie_breaker)

\* The model's contingent_vote action returns what the function returns
CvAgrees ==
    (method = "contingent_vote" /\ pc \in {"returned", "panicked"})
        => result = contingent_vote(voters, num_candidates, tie_breaker)

\* Off the even split the two methods agree
AgreeUnlessSplit ==
    (pc = "returned" /\ method = "fptp_runoff" /\ DistinctUtilities
     /\ tie_breaker \in {"cmp", "rev"} /\ ~EvenSplit)
        => result = contingent_vote(voters, num_candidates, tie_breaker)


\* C28: when every voter answers honest_preference, honest_runoff_driver does
\* not fail, whatever the tie-breaker, one that answers Equal included: the
\* runoff that was reached returns, and the winner is one of the two finalists
\* the driver was called with.
C28_RunoffDriverNeverFails ==
    (method \in {"fptp_runoff", "approval_runoff", "score_runoff"}
     /\ Len(ranking) >= 2
     /\ ~HonestPreferencePanics(voters))
        => /\ pc \in {"runoff", "returned"}
           /\ honest_runoff_driver(voters, tie_breaker, ranking[1], ranking[2])
                  \in {ranking[1], ranking[2]}
           /\ pc = "returned" => result \in {ranking, swap(ranking, 0, 1)}

\* A runoff split evenly under the tie-breaker that always answers Equal
C28_Witness ==
    /\ pc = "returned"
    /\ method = "fptp_runoff"
    /\ tie_breaker = "equal"
    /\ Len(voters) = 2
    /\ EvenSplit
    /\ RunoffTotals(voters, 1, 2, ranking[1], ranking[2], <<0, 0>>) = <<1, 1>>
    /\ result = swap(ranking, 0, 1)


-----------------------------------------------------------------------------
(* The methods as functions of the population: the ranking a call returns,  *)
(* <<>> standing for a panic                                                *)

\* The tail of fptp_runoff, approval_runoff and score_k_runoff on the ranking
\* r of the first stage
runoff(vs, tb, r) ==
    IF Len(r) < 2 \/ HonestPreferencePanics(vs) THEN <<>>
    ELSE IF honest_runoff_driver(vs, tb, r[1], r[2]) = r[2]
    THEN swap(r, 0, 1)
    ELSE r

\* ElectionMethods::fptp_runoff
fptp_runoff(vs, n, tb) ==
    IF TopChoicePanics(vs) THEN <<>>
    ELSE runoff(vs, tb, plurality_driver(vs, n, tb))

\* ElectionMethods::approval_runoff
approval_runoff(vs, n, tb) ==
    IF ApprovalPanics(vs) THEN <<>>
    ELSE runoff(vs, tb, approval_driver(vs, n, tb))

\* ElectionMethods::score_5_runoff, score_10_runoff, score_100_runoff
score_runoff(vs, n, tb, k) ==
    IF CardinalPanics(vs, k) THEN <<>>
    ELSE runoff(vs, tb, score_driver(vs, n, tb, k))

\* star_driver
star_driver(vs, n, tb, k) ==
    IF CardinalPanics(vs, k) \/ n < 2 THEN <<>>
    ELSE LET candidates == score_driver(vs, n, tb, k)
             sv == StarVotes(CardinalBallots(vs, k), 1, 0, 0, tb)
             ord == TieBreak(tb, sv.first, sv.second)
         IN  IF sv.panic THEN <<>>
             ELSE IF sv.first > sv.second THEN candidates
             ELSE IF sv.second < sv.first THEN swap(candidates, 0, 1)
             ELSE IF ord = "Less" THEN swap(candidates, 0, 1)
             ELSE IF ord = "Equal" THEN <<>>
             ELSE candidates

\* irv: the rounds from the ballots, the eliminated set and the log a round
\* starts with
RECURSIVE IrvRounds(_, _, _, _, _)
IrvRounds(ballots, elim, order, n, tb) ==
    LET advanced == [i \in 1..Len(ballots) |-> AdvanceBallot(ballots[i], elim)]
        tally == RoundTally(advanced, 1, Len(advanced), Zeros(n))
    IN  IF \A i \in 0..(n - 1) : i \in elim THEN <<>>
        ELSE LET loser == Loser(tally, elim, tb)
                 log == Append(order, loser)
                 out == elim \cup {loser}
             IN  IF Len(log) = n - 1
                 THEN Reverse(Append(log,
                          CHOOSE i \in 0..(n - 1) :
                              i \notin out /\ \A j \in 0..(i - 1) : j \in out))
                 ELSE IrvRounds(advanced, out, log, n, tb)

\* ElectionMethods::irv
irv(vs, n, tb) == IrvRounds(OrdinalBallots(vs), {}, <<>>, n, tb)

\* The ranking the method called m returns at range k
MethodResult(m, k, vs, n, tb) ==
    CASE m = "plurality" ->
             IF TopChoicePanics(vs) THEN <<>> ELSE plurality_driver(vs, n, tb)
      [] m = "fptp_runoff" -> fptp_runoff(vs, n, tb)
      [] m = "contingent_vote" -> contingent_vote(vs, n, tb)
      [] m = "irv" -> irv(vs, n, tb)
      [] m = "approval" ->
             IF ApprovalPanics(vs) THEN <<>> ELSE approval_driver(vs, n, tb)
      [] m = "approval_runoff" -> approval_runoff(vs, n, tb)
      [] m = "score" ->
             IF CardinalPanics(vs, k) THEN <<>> ELSE score_driver(vs, n, tb, k)
      [] m = "score_runoff" -> score_runoff(vs, n, tb, k)
      [] m = "star" -> star_driver(vs, n, tb, k)

\* HonestVoter::new on the arguments the voters of a session are built with,
\* tabulated
Constructed ==
    [a \in {<<v.utilities, v.scales, v.threshold_behavior>> :
                v \in SessionVoters} |->
        HonestVoterNew(a[1], a[2], a[3])]

\* The population as freshly constructed from what its voters were built with
Fresh(vs) ==
    [i \in 1..Len(vs) |->
        Constructed[<<vs[i].utilities, vs[i].scales,
                      vs[i].threshold_behavior>>]]

\* The ranges some voter of the population holds a cached ballot for
CachedRanges == UNION {DOMAIN voters[i].cached_cardinal_ballots :
                          i \in 1..Len(voters)}

\* C29: the ranking a method returns on a population of HonestVoters does not
\* depend on the methods run on the population before: in any sequence of
\* calls, each call that returns, returns the ranking the method returns on a
\* freshly constructed copy of the population.
C29_HistoryIndependent ==
    pc = "returned"
        => result = MethodResult(method, range, Fresh(voters), num_candidates,
                                 tie_breaker)

\* score_5 has returned on a population that had already answered score_10
\* and score_100, and the ranking is that of the fresh population
C29_Witness ==
    /\ pc = "returned"
    /\ method = "score"
    /\ range = 5
    /\ Len(voters) = 3
    /\ CachedRanges = {5, 10, 100}
    /\ \E i \in 1..Len(voters) :
           voters[i].cached_cardinal_ballots[5]
               # voters[i].cached_cardinal_ballots[10]
    /\ result = score_driver(Fresh(voters), num_candidates, tie_breaker, 5)


\* C30: irv called with num_candidates = 1 does not return the ranking <<0>>:
\* its first round eliminates candidate 0 and goes on, the log of length 1 not
\* being num_candidates - 1 = 0, and its second round, with no candidate
\* left, panics.  With two candidates irv returns after its first round.
C30_IrvNeedsTwoCandidates ==
    /\ (method = "irv" /\ num_candidates = 1)
          => /\ pc \in {"irv_tabulate", "irv_eliminate", "panicked"}
             /\ result = <<>>
             /\ Len(elimination_order) <= 1
             /\ pc = "panicked"
                  => elimination_order = <<0>> /\ eliminated = {0}
    /\ (method = "irv" /\ num_candidates = 2)
          => /\ pc # "panicked"
             /\ Len(elimination_order) <= 1
             /\ pc = "returned" => Len(result) = 2

\* The panic of the second round of an irv over one candidate and three
\* ballots
C30_Witness ==
    /\ method = "irv"
    /\ num_candidates = 1
    /\ pc = "panicked"
    /\ Len(voters) = 3
    /\ \E i \in 1..Len(voters) : cast_ordinal_ballot(voters[i]) = <<0>>
    /\ elimination_order = <<0>>
    /\ eliminated = {0}
    /\ \A i \in 1..Len(stack_ballots) : stack_ballots[i] = <<>>

=============================================================================
